---- MODULE Spec2Model ----
(***************************************************************************)
(* A model of the agent core of the Avior VS Code extension: the session   *)
(* state, processAgentRequest / processAgentRequestStream, the classifier  *)
(* (determineAction, analyzeRequestKeywords) and the five executors.       *)
(*                                                                         *)
(* Text is modelled as it is in the program: a string is a sequence of     *)
(* characters (one-character TLA+ strings), so includes(), trim(),         *)
(* toLowerCase() and the regular expressions are computed, not assumed.    *)
(* An optional value (T | null | undefined) is a sequence of length 0 or 1.*)
(***************************************************************************)
EXTENDS Integers, Sequences, FiniteSets, TLC

(***************************************************************************)
(* Characters and JavaScript string primitives                             *)
(***************************************************************************)
\* the newline character
NL == "\n"
\* the backtick character (a name, since the lexer rejects it in a literal)
BT == "BACKTICK"
\* the double quote character
DQ == "\""

Null == <<>>
Some(x) == <<x>>

LowerLetters ==
    <<"a", "b", "c", "d", "e", "f", "g", "h", "i", "j", "k", "l", "m",
      "n", "o", "p", "q", "r", "s", "t", "u", "v", "w", "x", "y", "z">>
UpperLetters ==
    <<"A", "B", "C", "D", "E", "F", "G", "H", "I", "J", "K", "L", "M",
      "N", "O", "P", "Q", "R", "S", "T", "U", "V", "W", "X", "Y", "Z">>
Digits == {"0", "1", "2", "3", "4", "5", "6", "7", "8", "9"}
RangeOf(f) == {f[i] : i \in DOMAIN f}
\* [a-zA-Z]
AlphaChar == RangeOf(LowerLetters) \cup RangeOf(UpperLetters)
\* [a-zA-Z0-9]
AlnumChar == AlphaChar \cup Digits
\* \w
WordChar == AlnumChar \cup {"_"}
\* \s
SpaceChar == {" ", NL, "\t", "\r"}

\* String.prototype.toLowerCase, one character
LowerOf(c) ==
    IF \E i \in 1..26 : UpperLetters[i] = c
    THEN LowerLetters[CHOOSE i \in 1..26 : UpperLetters[i] = c]
    ELSE c
toLowerCase(s) == [i \in 1..Len(s) |-> LowerOf(s[i])]

\* s.substring(i, j) with 0-based i, exclusive j
Sub(s, i, j) == SubSeq(s, i + 1, j)
\* the text w stands at offset i of s
At(s, i, w) == i + Len(w) <= Len(s) /\ Sub(s, i, i + Len(w)) = w
\* String.prototype.includes
includes(s, w) == \E i \in 0..Len(s) : At(s, i, w)

\* String.prototype.trim
trim(s) ==
    IF \A i \in 1..Len(s) : s[i] \in SpaceChar THEN <<>>
    ELSE LET a == CHOOSE i \in 1..Len(s) :
                     s[i] \notin SpaceChar /\ \A k \in 1..(i - 1) : s[k] \in SpaceChar
             b == CHOOSE i \in 1..Len(s) :
                     s[i] \notin SpaceChar /\ \A k \in (i + 1)..Len(s) : s[k] \in SpaceChar
         IN  SubSeq(s, a, b)

(***************************************************************************)
(* Regular expressions as sets of offsets: each operator maps the set I of *)
(* offsets where a match may continue to the set of offsets where it may   *)
(* stand after the next piece of the pattern.                              *)
(***************************************************************************)
\* a literal text
ReLit(s, I, w) == {i + Len(w) : i \in {k \in I : At(s, k, w)}}
\* an alternation of literal texts (?:w1|w2|...)
ReAlt(s, I, W) == UNION {ReLit(s, I, w) : w \in W}
\* C* for a character class C
ReStar(s, I, C) ==
    {j \in 0..Len(s) : \E i \in I : i <= j /\ \A k \in (i + 1)..j : s[k] \in C}
\* C+ for a character class C
RePlus(s, I, C) ==
    {j \in 0..Len(s) : \E i \in I : i < j /\ \A k \in (i + 1)..j : s[k] \in C}
\* every offset of s: an unanchored pattern may start anywhere
ReAnywhere(s) == 0..Len(s)

(***************************************************************************)
(* analyzeRequestKeywords: the keyword fallback classifier                 *)
(***************************************************************************)
Kinds == {"search", "edit", "create", "analyze", "respond"}

creationKeywords ==
    {<<"c", "r", "e", "a", "t", "e">>, <<"n", "e", "w">>, <<"a", "d", "d">>,
     <<"g", "e", "n", "e", "r", "a", "t", "e">>, <<"m", "a", "k", "e">>,
     <<"b", "u", "i", "l", "d">>, <<"w", "r", "i", "t", "e">>,
     <<"i", "m", "p", "l", "e", "m", "e", "n", "t">>,
     <<"c", "o", "m", "p", "o", "n", "e", "n", "t">>,
     <<"f", "u", "n", "c", "t", "i", "o", "n">>, <<"c", "l", "a", "s", "s">>,
     <<"f", "i", "l", "e">>, <<"s", "c", "r", "i", "p", "t">>,
     <<"m", "o", "d", "u", "l", "e">>, <<"s", "e", "r", "v", "i", "c", "e">>}

\* (?:file|component|function|class|script)
CreationNouns ==
    {<<"f", "i", "l", "e">>, <<"c", "o", "m", "p", "o", "n", "e", "n", "t">>,
     <<"f", "u", "n", "c", "t", "i", "o", "n">>, <<"c", "l", "a", "s", "s">>,
     <<"s", "c", "r", "i", "p", "t">>}

\* (?:X\s+)? : an optional word followed by white space
ReOptWord(s, I, w) == I \cup RePlus(s, ReLit(s, I, w), SpaceChar)

\* /create\s+(?:a\s+)?(?:new\s+)?(?:file|component|function|class|script)/
CreationPattern1(s) ==
    LET i1 == RePlus(s, ReLit(s, ReAnywhere(s), <<"c", "r", "e", "a", "t", "e">>), SpaceChar)
        i2 == ReOptWord(s, i1, <<"a">>)
        i3 == ReOptWord(s, i2, <<"n", "e", "w">>)
    IN  ReAlt(s, i3, CreationNouns) # {}

\* /new\s+(?:file|component|function|class|script)/
CreationPattern2(s) ==
    LET i1 == RePlus(s, ReLit(s, ReAnywhere(s), <<"n", "e", "w">>), SpaceChar)
    IN  ReAlt(s, i1, CreationNouns) # {}

\* /(?:make|build|write|implement)\s+(?:a\s+)?(?:file|component|function|class|script)/
CreationPattern3(s) ==
    LET verbs == {<<"m", "a", "k", "e">>, <<"b", "u", "i", "l", "d">>,
                  <<"w", "r", "i", "t", "e">>,
                  <<"i", "m", "p", "l", "e", "m", "e", "n", "t">>}
        i1 == RePlus(s, ReAlt(s, ReAnywhere(s), verbs), SpaceChar)
        i2 == ReOptWord(s, i1, <<"a">>)
    IN  ReAlt(s, i2, CreationNouns) # {}

\* /(?:component|function|class|script|module)\s+(?:for|to|that)/
CreationPattern4(s) ==
    LET nouns == {<<"c", "o", "m", "p", "o", "n", "e", "n", "t">>,
                  <<"f", "u", "n", "c", "t", "i", "o", "n">>,
                  <<"c", "l", "a", "s", "s">>, <<"s", "c", "r", "i", "p", "t">>,
                  <<"m", "o", "d", "u", "l", "e">>}
        i1 == RePlus(s, ReAlt(s, ReAnywhere(s), nouns), SpaceChar)
    IN  ReAlt(s, i1, {<<"f", "o", "r">>, <<"t", "o">>, <<"t", "h", "a", "t">>}) # {}

\* /(?:\.js|\.ts|\.tsx|\.jsx|\.py|\.css|\.html|\.json)\s*$/
CreationPattern5(s) ==
    LET exts == {<<".", "j", "s">>, <<".", "t", "s">>, <<".", "t", "s", "x">>,
                 <<".", "j", "s", "x">>, <<".", "p", "y">>, <<".", "c", "s", "s">>,
                 <<".", "h", "t", "m", "l">>, <<".", "j", "s", "o", "n">>}
    IN  Len(s) \in ReStar(s, ReAlt(s, ReAnywhere(s), exts), SpaceChar)

hasCreationKeyword(lowerPrompt) ==
    \E keyword \in creationKeywords : includes(lowerPrompt, keyword)

hasCreationPattern(lowerPrompt) ==
    \/ CreationPattern1(lowerPrompt)
    \/ CreationPattern2(lowerPrompt)
    \/ CreationPattern3(lowerPrompt)
    \/ CreationPattern4(lowerPrompt)
    \/ CreationPattern5(lowerPrompt)

editKeywords ==
    {<<"e", "d", "i", "t">>, <<"m", "o", "d", "i", "f", "y">>,
     <<"c", "h", "a", "n", "g", "e">>, <<"u", "p", "d", "a", "t", "e">>,
     <<"f", "i", "x">>, <<"r", "e", "f", "a", "c", "t", "o", "r">>}
searchKeywords ==
    {<<"s", "e", "a", "r", "c", "h">>, <<"f", "i", "n", "d">>,
     <<"l", "o", "o", "k", " ", "f", "o", "r">>}
analyzeKeywords ==
    {<<"a", "n", "a", "l", "y", "z", "e">>, <<"r", "e", "v", "i", "e", "w">>,
     <<"e", "x", "p", "l", "a", "i", "n">>, <<"c", "h", "e", "c", "k">>,
     <<"e", "x", "a", "m", "i", "n", "e">>}

\* a scan that looks for the analysis keywords before the search keywords
analyzeRequestKeywordsAnalyzeFirst(prompt) ==
    LET lowerPrompt == toLowerCase(prompt)
        anyOf(W) == \E w \in W : includes(lowerPrompt, w)
    IN  IF hasCreationKeyword(lowerPrompt) \/ hasCreationPattern(lowerPrompt)
        THEN "create"
        ELSE IF anyOf(editKeywords) THEN "edit"
        ELSE IF anyOf(analyzeKeywords) THEN "analyze"
        ELSE IF anyOf(searchKeywords) THEN "search"
        ELSE "respond"

\* the type of the action the keyword scan returns for a prompt
analyzeRequestKeywords(prompt) ==
    LET lowerPrompt == toLowerCase(prompt)
        anyOf(W) == \E w \in W : includes(lowerPrompt, w)
    IN  IF hasCreationKeyword(lowerPrompt) \/ hasCreationPattern(lowerPrompt)
        THEN "create"
        ELSE IF anyOf(editKeywords) THEN "edit"
        ELSE IF anyOf(searchKeywords)
                /\ ~hasCreationKeyword(lowerPrompt)
                /\ ~hasCreationPattern(lowerPrompt) THEN "search"
        ELSE IF anyOf(analyzeKeywords) THEN "analyze"
        ELSE "respond"

\* analyzeRequestKeywords as src/agent.ts has it: the search keywords are looked
\* for first, then the edit, creation and analysis keywords
analyzeRequestKeywordsAgentTs(prompt) ==
    LET lowerPrompt == toLowerCase(prompt)
        anyOf(W) == \E w \in W : includes(lowerPrompt, w)
    IN  IF anyOf({<<"s", "e", "a", "r", "c", "h">>, <<"f", "i", "n", "d">>}) THEN "search"
        ELSE IF anyOf({<<"e", "d", "i", "t">>, <<"m", "o", "d", "i", "f", "y">>, <<"c", "h", "a", "n", "g", "e">>}) THEN "edit"
        ELSE IF anyOf({<<"c", "r", "e", "a", "t", "e">>, <<"n", "e", "w">>, <<"a", "d", "d">>}) THEN "create"
        ELSE IF anyOf({<<"a", "n", "a", "l", "y", "z", "e">>, <<"r", "e", "v", "i", "e", "w">>, <<"e", "x", "p", "l", "a", "i", "n">>}) THEN "analyze"
        ELSE "respond"

(***************************************************************************)
(* cleanCodeContent: strip the markdown of a model reply                   *)
(***************************************************************************)
\* the three backticks of a markdown fence
Fence == <<BT, BT, BT>>
\* the characters that end a line for ^, $ and . of a regular expression
LineTerm == {NL, "\r"}

\* the least offset >= pos where the text w stands in s, or -1
IndexFrom(s, w, pos) ==
    IF \E i \in pos..Len(s) : At(s, i, w)
    THEN CHOOSE i \in pos..Len(s) : At(s, i, w) /\ \A k \in pos..(i - 1) : ~At(s, k, w)
    ELSE -1

\* the offset where the longest run of characters of class C starting at offset i ends
RunEnd(s, i, C) ==
    CHOOSE j \in i..Len(s) :
        /\ \A k \in (i + 1)..j : s[k] \in C
        /\ (j = Len(s) \/ s[j + 1] \notin C)

\* the offset after ```[\w]*\n? standing at offset i (both quantifiers are greedy)
FenceOpenEnd(s, i) ==
    LET t == RunEnd(s, i + 3, WordChar)
    IN  IF t < Len(s) /\ s[t + 1] = NL THEN t + 1 ELSE t

\* match.replace(/```[\w]*\n?/, '').replace(/\n?```$/, '') for the match that
\* opens at offset i, whose text starts at offset k and whose closing fence
\* stands at offset c
BlockContent(s, k, c) ==
    IF c > k /\ s[c] = NL THEN Sub(s, k, c - 1) ELSE Sub(s, k, c)

\* cleaned.match(/```[\w]*\n?([\s\S]*?)\n?```/g) from offset pos on: the block
\* contents of the successive matches, in order
RECURSIVE CodeBlocks(_, _)
CodeBlocks(s, pos) ==
    LET i == IndexFrom(s, Fence, pos)
    IN  IF i = -1 THEN <<>>
        ELSE LET k == FenceOpenEnd(s, i)
                 c == IndexFrom(s, Fence, k)
             IN  IF c = -1 THEN <<>>
                 ELSE <<BlockContent(s, k, c)>> \o CodeBlocks(s, c + 3)

\* the forEach that keeps the first block of the greatest length
RECURSIVE LargestBlock(_, _, _)
LargestBlock(blocks, n, largest) ==
    IF n > Len(blocks) THEN largest
    ELSE LargestBlock(blocks, n + 1,
                      IF Len(blocks[n]) > Len(largest) THEN blocks[n] ELSE largest)

\* ^ under the m flag
LineStart(s, i) == i = 0 \/ s[i] \in LineTerm
\* the offset where .* started at offset i ends: the end of that line
LineEnd(s, i) == RunEnd(s, i, {s[k] : k \in 1..Len(s)} \ LineTerm)

\* /^\*\*.*?\*\*$/m at offset i: the offset where the match ends, or -1
BoldLineEnd(s, i) ==
    LET e == LineEnd(s, i)
    IN  IF LineStart(s, i) /\ At(s, i, <<"*", "*">>) /\ e - i >= 4
           /\ Sub(s, e - 2, e) = <<"*", "*">>
        THEN e ELSE -1

\* /^M\s+.*$/m at offset i, M a run of lo..hi characters mark: the offset where
\* the match ends, or -1 (\s+ is greedy and also takes line ends)
MarkedLineEnd(s, i, mark, lo, hi) ==
    LET h == RunEnd(s, i, {mark})
        w == RunEnd(s, h, SpaceChar)
    IN  IF LineStart(s, i) /\ h - i >= lo /\ h - i <= hi /\ w > h
        THEN LineEnd(s, w) ELSE -1

\* the offset where the pattern named kind, standing at offset i, ends, or -1
GmMatchEnd(kind, s, i) ==
    CASE kind = "bold" -> BoldLineEnd(s, i)
      [] kind = "header" -> MarkedLineEnd(s, i, "#", 1, 6)
      [] kind = "list" -> MarkedLineEnd(s, i, "-", 1, 1)

\* s.replace(/pattern/gm, '') from offset i on
RECURSIVE ReplaceGm(_, _, _)
ReplaceGm(kind, s, i) ==
    IF i >= Len(s) THEN <<>>
    ELSE LET e == GmMatchEnd(kind, s, i)
         IN  IF e > i THEN ReplaceGm(kind, s, e)
             ELSE <<s[i + 1]>> \o ReplaceGm(kind, s, i + 1)

cleanCodeContent(content) ==
    LET matches == CodeBlocks(content, 0)
        block == IF Len(matches) > 0 THEN LargestBlock(matches, 1, <<>>) ELSE content
        c0 == trim(block)
        c1 == ReplaceGm("bold", c0, 0)
        c2 == ReplaceGm("header", c1, 0)
    IN  ReplaceGm("list", c2, 0)

(***************************************************************************)
(* determineFileDetails: the name and extension of the file to create      *)
(***************************************************************************)
\* [a-zA-Z0-9._-]
NameChar == AlnumChar \cup {".", "_", "-"}

\* ([a-zA-Z][a-zA-Z0-9._-]*\.[a-zA-Z0-9]+) standing at offset c: the offset where
\* the greedy match ends, or -1
FullNameEnd(s, c) ==
    IF c < Len(s) /\ s[c + 1] \in AlphaChar
    THEN LET r == RunEnd(s, c + 1, NameChar)
             dots == {d \in (c + 1)..(r - 1) :
                         s[d + 1] = "." /\ d + 2 <= Len(s) /\ s[d + 2] \in AlnumChar}
         IN  IF dots = {} THEN -1
             ELSE RunEnd(s, (CHOOSE d \in dots : \A d2 \in dots : d2 <= d) + 1, AlnumChar)
    ELSE -1

\* the least offset of a set of offsets, or -1 for the empty set
MinOr(S) == IF S = {} THEN -1 ELSE CHOOSE i \in S : \A j \in S : i <= j

\* content.match(/(?:\/\/|\/\*|#|\<!--)\s*([a-zA-Z][a-zA-Z0-9._-]*\.[a-zA-Z0-9]+)/):
\* the captured name, or Null
contentFileNameMatch(content) ==
    LET markers == {<<"/", "/">>, <<"/", "*">>, <<"#">>, <<"<", "!", "-", "-">>}
        nameAt(i) == {c \in ReStar(content, ReAlt(content, {i}, markers), SpaceChar) :
                         FullNameEnd(content, c) # -1}
        i0 == MinOr({i \in 0..Len(content) : nameAt(i) # {}})
    IN  IF i0 = -1 THEN Null
        ELSE LET c == MinOr(nameAt(i0))
             IN  Some(Sub(content, c, FullNameEnd(content, c)))

\* prompt.match(/(?:create|new|add|generate)\s+(?:a\s+)?(?:file\s+)?(?:called\s+)?
\*               ["`']?([a-zA-Z][a-zA-Z0-9._-]*\.[a-zA-Z0-9]+)["`']?/i):
\* the captured name, or Null
fileNameMatch(prompt) ==
    LET low == toLowerCase(prompt)
        verbs == {<<"c", "r", "e", "a", "t", "e">>, <<"n", "e", "w">>, <<"a", "d", "d">>, <<"g", "e", "n", "e", "r", "a", "t", "e">>}
        nameAt(i) ==
            LET i1 == RePlus(low, ReAlt(low, {i}, verbs), SpaceChar)
                i2 == ReOptWord(low, i1, <<"a">>)
                i3 == ReOptWord(low, i2, <<"f", "i", "l", "e">>)
                i4 == ReOptWord(low, i3, <<"c", "a", "l", "l", "e", "d">>)
                i5 == i4 \cup ReAlt(low, i4, {<<DQ>>, <<BT>>, <<"'">>})
            IN  {c \in i5 : FullNameEnd(prompt, c) # -1}
        i0 == MinOr({i \in 0..Len(prompt) : nameAt(i) # {}})
    IN  IF i0 = -1 THEN Null
        ELSE LET c == MinOr(nameAt(i0))
             IN  Some(Sub(prompt, c, FullNameEnd(prompt, c)))

\* content.match(/(?:class|function|const)\s+([A-Z][a-zA-Z0-9]*)/): the captured
\* identifier, or Null
componentMatch(content) ==
    LET words == {<<"c", "l", "a", "s", "s">>, <<"f", "u", "n", "c", "t", "i", "o", "n">>, <<"c", "o", "n", "s", "t">>}
        nameAt(i) == {c \in RePlus(content, ReAlt(content, {i}, words), SpaceChar) :
                         c < Len(content) /\ content[c + 1] \in RangeOf(UpperLetters)}
        i0 == MinOr({i \in 0..Len(content) : nameAt(i) # {}})
    IN  IF i0 = -1 THEN Null
        ELSE LET c == MinOr(nameAt(i0))
             IN  Some(Sub(content, c, RunEnd(content, c + 1, AlnumChar)))

\* the offset of the last "." of a name that holds one
LastDot(name) == CHOOSE d \in 1..Len(name) :
                     name[d] = "." /\ \A k \in (d + 1)..Len(name) : name[k] # "."

\* fullName.split('.'); extension = parts.pop() || 'txt'; fileName = parts.join('.')
SplitFullName(fullName) ==
    LET d == LastDot(fullName)
        ext == SubSeq(fullName, d + 1, Len(fullName))
    IN  [fileName |-> SubSeq(fullName, 1, d - 1),
         extension |-> IF ext = <<>> THEN <<"t", "x", "t">> ELSE ext]

\* the if / else-if chain that guesses the extension and the generic stem
GuessFileDetails(lowerPrompt, content) ==
    LET p(w) == includes(lowerPrompt, w)
        c(w) == includes(content, w)
        fd(n, e) == [fileName |-> n, extension |-> e]
    IN  IF p(<<"j", "a", "v", "a", "s", "c", "r", "i", "p", "t">>) \/ p(<<"j", "s">>) \/ c(<<"f", "u", "n", "c", "t", "i", "o", "n">>)
           \/ c(<<"c", "o", "n", "s", "t", " ">>) \/ c(<<"l", "e", "t", " ">>)
        THEN fd(<<"c", "o", "m", "p", "o", "n", "e", "n", "t">>, <<"j", "s">>)
        ELSE IF p(<<"t", "y", "p", "e", "s", "c", "r", "i", "p", "t">>) \/ p(<<"t", "s">>) \/ c(<<"i", "n", "t", "e", "r", "f", "a", "c", "e", " ">>)
                \/ c(<<":", " ", "s", "t", "r", "i", "n", "g">>) \/ c(<<":", " ", "n", "u", "m", "b", "e", "r">>)
        THEN fd(<<"c", "o", "m", "p", "o", "n", "e", "n", "t">>, <<"t", "s">>)
        ELSE IF p(<<"r", "e", "a", "c", "t">>) \/ c(<<"J", "S", "X">>) \/ c(<<"R", "e", "a", "c", "t">>)
                \/ c(<<"u", "s", "e", "S", "t", "a", "t", "e">>) \/ c(<<"u", "s", "e", "E", "f", "f", "e", "c", "t">>)
        THEN fd(<<"C", "o", "m", "p", "o", "n", "e", "n", "t">>, <<"t", "s", "x">>)
        ELSE IF p(<<"c", "s", "s">>) \/ c(<<"b", "a", "c", "k", "g", "r", "o", "u", "n", "d">>) \/ c(<<"m", "a", "r", "g", "i", "n">>)
                \/ c(<<"p", "a", "d", "d", "i", "n", "g">>)
        THEN fd(<<"s", "t", "y", "l", "e", "s">>, <<"c", "s", "s">>)
        ELSE IF p(<<"h", "t", "m", "l">>) \/ c(<<"<", "h", "t", "m", "l">>) \/ c(<<"<", "!", "D", "O", "C", "T", "Y", "P", "E">>)
        THEN fd(<<"i", "n", "d", "e", "x">>, <<"h", "t", "m", "l">>)
        ELSE IF p(<<"j", "s", "o", "n">>) \/ (c(<<"{">>) /\ c(<<DQ>>))
        THEN fd(<<"d", "a", "t", "a">>, <<"j", "s", "o", "n">>)
        ELSE IF p(<<"p", "y", "t", "h", "o", "n">>) \/ p(<<"p", "y">>) \/ c(<<"d", "e", "f", " ">>)
                \/ c(<<"i", "m", "p", "o", "r", "t", " ">>)
        THEN fd(<<"s", "c", "r", "i", "p", "t">>, <<"p", "y">>)
        ELSE IF p(<<"c", "o", "m", "p", "o", "n", "e", "n", "t">>) \/ p(<<"r", "e", "a", "c", "t">>)
        THEN fd(<<"C", "o", "m", "p", "o", "n", "e", "n", "t">>, <<"t", "s", "x">>)
        ELSE fd(<<"n", "e", "w", "F", "i", "l", "e">>, <<"t", "x", "t">>)

\* determineFileDetails with the file name of the prompt looked for first
determineFileDetailsPromptFirst(prompt, content) ==
    LET inContent == contentFileNameMatch(content)
        inPrompt == fileNameMatch(prompt)
        guess == GuessFileDetails(toLowerCase(prompt), content)
        ident == componentMatch(content)
    IN  IF inPrompt # Null THEN SplitFullName(inPrompt[1])
        ELSE IF inContent # Null THEN SplitFullName(inContent[1])
        ELSE IF ident # Null THEN [guess EXCEPT !.fileName = ident[1]]
        ELSE guess

determineFileDetails(prompt, content) ==
    LET inContent == contentFileNameMatch(content)
        inPrompt == fileNameMatch(prompt)
        guess == GuessFileDetails(toLowerCase(prompt), content)
        ident == componentMatch(content)
    IN  IF inContent # Null THEN SplitFullName(inContent[1])
        ELSE IF inPrompt # Null THEN SplitFullName(inPrompt[1])
        ELSE IF ident # Null THEN [guess EXCEPT !.fileName = ident[1]]
        ELSE guess

(***************************************************************************)
(* JSON.parse, on the flat texts the classifier can be answered with: a    *)
(* scalar, or an object whose members are scalars. Texts with escapes,     *)
(* fractions, arrays or nested objects are reported "unsupported"; the     *)
(* model never feeds one to the parser.                                    *)
(***************************************************************************)
JVal(t, v, e) == [t |-> t, v |-> v, members |-> <<>>, end |-> e]
JBad == JVal("malformed", <<>>, -1)
JUnsupported == JVal("unsupported", <<>>, -1)

\* the scalar that starts at offset i
JsonScalar(s, i) ==
    IF i >= Len(s) THEN JBad
    ELSE IF s[i + 1] = DQ
    THEN LET c == IndexFrom(s, <<DQ>>, i + 1)
         IN  IF c = -1 THEN JBad
             ELSE IF \E k \in (i + 2)..c : s[k] \in {NL, "\t", "\r"} THEN JBad
             ELSE IF \E k \in (i + 2)..c : s[k] = "\\" THEN JUnsupported
             ELSE JVal("string", Sub(s, i + 1, c), c + 1)
    ELSE IF At(s, i, <<"n", "u", "l", "l">>) THEN JVal("null", <<>>, i + 4)
    ELSE IF At(s, i, <<"t", "r", "u", "e">>) THEN JVal("true", <<>>, i + 4)
    ELSE IF At(s, i, <<"f", "a", "l", "s", "e">>) THEN JVal("false", <<>>, i + 5)
    ELSE IF s[i + 1] \in {"{", "["} THEN JUnsupported
    ELSE LET d == IF s[i + 1] = "-" THEN i + 1 ELSE i
             e == RunEnd(s, d, Digits)
         IN  IF e = d \/ (e - d > 1 /\ s[d + 1] = "0") THEN JBad
             ELSE IF e < Len(s) /\ s[e + 1] \in {".", "e", "E"} THEN JUnsupported
             ELSE JVal("number", Sub(s, i, e), e)

\* the members of an object from offset i (at a key) on; acc holds the
\* <<key, value>> pairs read so far
RECURSIVE JsonMembers(_, _, _)
JsonMembers(s, i, acc) ==
    LET key == JsonScalar(s, i)
        k == RunEnd(s, key.end, SpaceChar)
        val == JsonScalar(s, RunEnd(s, k + 1, SpaceChar))
        m == RunEnd(s, val.end, SpaceChar)
        got == Append(acc, <<key.v, val>>)
    IN  IF key.t # "string"
        THEN (IF key.t = "unsupported" /\ s[i + 1] = DQ THEN key ELSE JBad)
        ELSE IF k >= Len(s) \/ s[k + 1] # ":" THEN JBad
        ELSE IF val.end = -1 THEN val
        ELSE IF m >= Len(s) THEN JBad
        ELSE IF s[m + 1] = "}" THEN [JVal("object", <<>>, m + 1) EXCEPT !.members = got]
        ELSE IF s[m + 1] = "," THEN JsonMembers(s, RunEnd(s, m + 1, SpaceChar), got)
        ELSE JBad

\* JSON.parse(text): t = "malformed" stands for the SyntaxError it throws
JsonParse(text) ==
    LET i == RunEnd(text, 0, SpaceChar)
        j == RunEnd(text, i + 1, SpaceChar)
        val == IF i < Len(text) /\ text[i + 1] = "{"
               THEN IF j < Len(text) /\ text[j + 1] = "}"
                    THEN JVal("object", <<>>, j + 1)
                    ELSE JsonMembers(text, j, <<>>)
               ELSE JsonScalar(text, i)
    IN  IF val.end = -1 THEN val
        ELSE IF RunEnd(text, val.end, SpaceChar) # Len(text) THEN JBad
        ELSE val

\* parsed[name]: the value of the last member of that name; t = "undefined" if
\* there is none (and for every property of a string, number or boolean)
JsonGet(parsed, name) ==
    LET hits == {n \in 1..Len(parsed.members) : parsed.members[n][1] = name}
    IN  IF hits = {} THEN JVal("undefined", <<>>, -1)
        ELSE parsed.members[CHOOSE n \in hits : \A n2 \in hits : n2 <= n][2]

\* the truthiness of a parsed value, as || sees it
Truthy(val) ==
    CASE val.t = "string" -> val.v # <<>>
      [] val.t = "number" -> val.v \notin {<<"0">>, <<"-", "0">>}
      [] val.t \in {"true", "object"} -> TRUE
      [] OTHER -> FALSE

KindText ==
    [search |-> <<"s", "e", "a", "r", "c", "h">>, edit |-> <<"e", "d", "i", "t">>,
     create |-> <<"c", "r", "e", "a", "t", "e">>, analyze |-> <<"a", "n", "a", "l", "y", "z", "e">>,
     respond |-> <<"r", "e", "s", "p", "o", "n", "d">>]

\* the action type a parsed value stands for: "unknown" stands for every value
\* that is none of the five kinds
TypeNamed(val) ==
    IF val.t = "string" /\ \E k \in Kinds : KindText[k] = val.v
    THEN CHOOSE k \in Kinds : KindText[k] = val.v
    ELSE "unknown"

(***************************************************************************)
(* determineAction                                                         *)
(***************************************************************************)
\* an outcome of a capability call: ok with a text, or a failure
Ok(text) == [ok |-> TRUE, text |-> text]
Failed == [ok |-> FALSE, text |-> <<>>]

\* the type of the action determineAction returns, given the outcome of its
\* llmService.generateResponse call
determineAction(prompt, llm) ==
    IF ~llm.ok THEN analyzeRequestKeywords(prompt)
    ELSE LET parsed == JsonParse(llm.text)
         IN  IF parsed.t \in {"malformed", "null"}
             THEN analyzeRequestKeywords(prompt)
             ELSE IF Truthy(JsonGet(parsed, <<"t", "y", "p", "e">>))
             THEN TypeNamed(JsonGet(parsed, <<"t", "y", "p", "e">>))
             ELSE "respond"

\* determineAction as src/agent.ts has it: the same, with its own keyword scan
determineActionAgentTs(prompt, llm) ==
    IF ~llm.ok THEN analyzeRequestKeywordsAgentTs(prompt)
    ELSE LET parsed == JsonParse(llm.text)
         IN  IF parsed.t \in {"malformed", "null"}
             THEN analyzeRequestKeywordsAgentTs(prompt)
             ELSE IF Truthy(JsonGet(parsed, <<"t", "y", "p", "e">>))
             THEN TypeNamed(JsonGet(parsed, <<"t", "y", "p", "e">>))
             ELSE "respond"

(***************************************************************************)
(* The inputs of the model                                                 *)
(***************************************************************************)
\* the number of processRequest / processRequestStream calls that may overlap
NumProcs == 2
\* the number of LangChainAgentService instances useLangChain() may create
MaxLangChain == 1
\* the number of chunks a stream may deliver
MaxChunks == 2

P_find == <<"f", "i", "n", "d", " ", "a", "l", "l", " ", "u", "s", "a", "g", "e", "s", " ", "o", "f", " ", "l", "o", "g", "i", "n">>
P_create == <<"c", "r", "e", "a", "t", "e", " ", "a", " ", "n", "e", "w", " ", "f", "i", "l", "e", " ", "c", "a", "l", "l", "e", "d", " ", "f", "o", "o", ".", "t", "s">>

\* the requests callers submit: ids are unique per call
Requests ==
    {[id |-> "r1", prompt |-> P_find],
     [id |-> "r2", prompt |-> P_create]}
NoRequest == [id |-> "", prompt |-> <<>>]

\* the chat messages of the webview: the requests, and one with no action keyword
P_hello == <<"h", "e", "l", "l", "o">>
ChatRequests == Requests \cup {[id |-> "r3", prompt |-> P_hello]}

\* the prompts the keyword scan is applied to: one to MaxWords of these words,
\* and three whole sentences
MaxWords == 2
ScanWords ==
    {<<"c", "r", "e", "a", "t", "e">>,
     <<"n", "e", "w">>,
     <<"f", "u", "n", "c", "t", "i", "o", "n">>,
     <<"f", "i", "l", "e">>,
     <<"s", "e", "a", "r", "c", "h">>,
     <<"F", "i", "n", "d">>,
     <<"l", "o", "o", "k", " ", "f", "o", "r">>,
     <<"f", "i", "x">>,
     <<"c", "h", "e", "c", "k">>,
     <<"l", "o", "g", "i", "n">>,
     <<"f", "o", "o", ".", "t", "s">>}
P_function == <<"c", "r", "e", "a", "t", "e", " ", "a", " ", "f", "u", "n", "c", "t", "i", "o", "n", " ", "t", "o", " ", "s", "e", "a", "r", "c", "h", " ", "x">>
RECURSIVE WordsUpTo(_)
WordsUpTo(n) ==
    IF n = 1 THEN ScanWords
    ELSE WordsUpTo(n - 1) \cup {a \o <<" ">> \o b : a \in WordsUpTo(n - 1), b \in ScanWords}
ScanPrompts == WordsUpTo(MaxWords) \cup {P_find, P_create, P_function}
ScanRequests == {[id |-> "r1", prompt |-> t] : t \in ScanPrompts}

\* replies of the model to the classification prompt
ClassifyReplies ==
    {<<"{", DQ, "t", "y", "p", "e", DQ, ":", DQ, "s", "e", "a", "r", "c", "h", DQ, ",", DQ, "r", "e", "a", "s", "o", "n", "i", "n", "g", DQ, ":", DQ, "r", DQ, "}">>,
     <<"{", DQ, "t", "y", "p", "e", DQ, ":", DQ, "e", "d", "i", "t", DQ, "}">>,
     <<"{", DQ, "t", "y", "p", "e", DQ, ":", DQ, "c", "r", "e", "a", "t", "e", DQ, "}">>,
     <<"{", DQ, "t", "y", "p", "e", DQ, ":", DQ, "a", "n", "a", "l", "y", "z", "e", DQ, "}">>,
     <<"{", DQ, "t", "y", "p", "e", DQ, ":", DQ, "r", "e", "s", "p", "o", "n", "d", DQ, "}">>,
     <<"{", DQ, "t", "y", "p", "e", DQ, ":", DQ, "d", "e", "l", "e", "t", "e", DQ, "}">>,
     <<"{", "}">>,
     <<"{", DQ, "t", "y", "p", "e", DQ, ":", DQ, DQ, "}">>,
     <<"n", "u", "l", "l">>,
     <<DQ, "e", "d", "i", "t", DQ>>,
     <<"S", "u", "r", "e", "!">>,
     <<BT, BT, BT, "j", "s", "o", "n", NL, "{", DQ, "t", "y", "p", "e", DQ, ":", DQ, "e", "d", "i", "t", DQ, "}", NL, BT, BT, BT>>}

\* replies of the model to the edit and create prompts
RawContents ==
    {<<BT, BT, BT, "j", "s", NL, "c", "o", "n", "s", "o", "l", "e", ".", "l", "o", "g", "(", "1", ")", NL, BT, BT, BT>>,
     <<"#", " ", "a", NL, "#", " ", "b">>,
     <<" ", " ">>,
     <<>>}

\* replies of the model that are one fenced block: a language tag, and one to
\* MaxLines of these lines between the fences
MaxLines == 2
FenceTags == {<<>>, <<"j", "s">>, <<"p", "y">>, <<"c", "+", "+">>}
FenceLines ==
    {<<"c", "o", "n", "s", "o", "l", "e", ".", "l", "o", "g", "(", "1", ")">>, <<"#", " ", "c">>, <<"-", " ", "a">>,
     <<"*", "*", "b", "*", "*">>, <<>>}
RECURSIVE LinesUpTo(_)
LinesUpTo(n) ==
    IF n = 1 THEN FenceLines
    ELSE LinesUpTo(n - 1) \cup {a \o <<NL>> \o b : a \in LinesUpTo(n - 1), b \in FenceLines}
FencedOutputs ==
    {<<BT, BT, BT>> \o tag \o <<NL>> \o body \o <<NL, BT, BT, BT>> :
        tag \in FenceTags, body \in LinesUpTo(MaxLines)}

\* replies of the model to a plain prompt or an analysis prompt; the chunks of a
\* stream, in the order they arrive
LlmTexts == {<<"o", "k">>}
Tokens == << <<"a">>, <<"b">> >>

\* the first workspace folder and the file it holds at the start
WsRoot == <<"/", "w", "s">>
FileA == <<"/", "w", "s", "/", "a", ".", "t", "s">>
ContentA == <<"l", "e", "t", " ", "a">>

(***************************************************************************)
(* State                                                                   *)
(***************************************************************************)
VARIABLES
    agentState,        \* the module-level agentState: isActive, currentTask
    langchainAgent,    \* the module-level langchainAgent: Null or Some(instance)
    agentExecutor,     \* the instances whose agentExecutor is set
    lcInitializing,    \* the instances whose initialize() is in flight
    startPc,           \* where a start() call stands
    fs,                \* the files of the workspace: path -> content
    activeEditor,      \* vscode.window.activeTextEditor: Null or Some(path)
    workspaceFolders,  \* vscode.workspace.workspaceFolders
    proc,              \* the calls of processRequest / processRequestStream, in the
                       \* order they are made
    globalState,       \* context.globalState: the stored provider, model, endpoint
    secrets,           \* context.secrets: Null or Some(the stored API key)
    llmService,        \* the service the extension made at its last start
    webview,           \* the chat webview: the messages in flight, the state of
                       \* App and of ConfigPanel
    lcPc,              \* where the useLangChain() call that made an instance stands
    search,            \* a call of searchInFileContent: its arguments and result
    pluginRegistry,    \* the module-level pluginRegistry: plugins, enabledPlugins
    pluginCalls        \* the calls of enablePlugin / disablePlugin

\* the state of the extension around the agent
ext == <<globalState, secrets, llmService, webview, lcPc, search, pluginRegistry,
        pluginCalls>>

\* the state outside the configuration and the LangChain calls
rest == <<search, pluginRegistry, pluginCalls>>

shared == <<agentState, langchainAgent, agentExecutor, lcInitializing, startPc,
            fs, activeEditor, workspaceFolders, ext>>
vars == <<agentState, langchainAgent, agentExecutor, lcInitializing, startPc,
          fs, activeEditor, workspaceFolders, proc, ext>>

Procs == DOMAIN proc

\* AgentAction
Content(tpl, err, text) == [tpl |-> tpl, err |-> err, text |-> text]
NoContent == Content("", "", <<>>)
Action(type, target, content, reasoning) ==
    [type |-> type, target |-> target, content |-> content, reasoning |-> reasoning]
NoAction == Action("", Null, NoContent, "")

\* a response that takes its id from the call made last, as if the request were
\* kept in the shared session state like currentTask
ResponseOfLatestCall(request, action, reasoning) ==
    LET started == {q \in Procs : proc[q].pc # "idle"}
        latest == CHOOSE q \in started : \A q2 \in started : q2 <= q
    IN  [requestId |-> proc[latest].req.id, action |-> action, reasoning |-> reasoning]

\* AgentResponse (the timestamp is left out)
Response(request, action, reasoning) ==
    [requestId |-> request.id, action |-> action, reasoning |-> reasoning]

\* a call that has not started
IdleProc ==
    [pc |-> "idle", req |-> NoRequest, reply |-> Null, kind |-> "", target |-> Null,
     content |-> <<>>, listed |-> {}, err |-> "", result |-> NoAction,
     resp |-> Null, calls |-> <<>>, delivered |-> <<>>]

\* the files of the workspace when the extension is activated
InitialFs == [f \in {FileA} |-> ContentA]

(***************************************************************************)
(* The configuration: configManager, createLLMService                      *)
(***************************************************************************)
\* the character the webview provider masks a key with
Bullet == "BULLET"
Mask == [i \in 1..8 |-> Bullet]

\* API keys: none, an OpenAI key, a key of a local server
K_none == <<>>
K_openai == <<"s", "k", "-", "1">>
K_local == <<"k", "1">>
ApiKeys == {K_none, K_openai, K_local}

\* the endpoint of a local Ollama server
Ollama == "http://localhost:11434/v1"

Providers == {"openai", "openai-compatible", "anthropic"}
Models == {"gpt-4", "llama2"}

\* String.prototype.startsWith
startsWith(s, prefix) ==
    Len(prefix) <= Len(s) /\ \A i \in 1..Len(prefix) : s[i] = prefix[i]

\* validateApiKey
validateApiKey(provider, apiKey) ==
    IF provider = "openai-compatible" THEN TRUE
    ELSE IF apiKey = <<>> \/ Len(trim(apiKey)) = 0 THEN FALSE
    ELSE IF provider = "openai" THEN startsWith(apiKey, <<"s", "k", "-">>)
    ELSE IF provider = "anthropic"
         THEN startsWith(apiKey, <<"s", "k", "-", "a", "n", "t", "-">>)
    ELSE Len(apiKey) > 10

\* getDefaultModel: the model of getDefaultConfig(provider), or 'gpt-4'
getDefaultModel(provider) ==
    CASE provider = "openai" -> "gpt-4"
      [] provider = "anthropic" -> "claude-3-sonnet-20240229"
      [] provider = "gemini" -> "gemini-pro"
      [] provider = "openai-compatible" -> "llama2"
      [] OTHER -> "gpt-4"

\* the vscode.ExtensionContext: its two stores
Context(gs, sec) == [globalState |-> gs, secrets |-> sec]
context == Context(globalState, secrets)

\* getAgentConfig: the stored values, each with its default (temperature,
\* maxTokens and customHeaders are left out; no operation of the model reads
\* them)
getAgentConfig(ctx) ==
    LET provider == IF ctx.globalState.provider = Null THEN "openai"
                    ELSE ctx.globalState.provider[1]
    IN  [llmProvider |-> provider,
         apiKey |-> IF ctx.secrets = Null THEN <<>> ELSE ctx.secrets[1],
         model |-> IF ctx.globalState.model = Null \/ ctx.globalState.model = Some("")
                   THEN getDefaultModel(provider)
                   ELSE ctx.globalState.model[1],
         apiEndpoint |-> ctx.globalState.apiEndpoint]

\* updateAgentConfig: the stores after the update; a field of the update is
\* written when it is defined
updateAgentConfig(configUpdate, ctx) ==
    Context([provider |-> IF "llmProvider" \in DOMAIN configUpdate
                          THEN Some(configUpdate.llmProvider)
                          ELSE ctx.globalState.provider,
             model |-> IF "model" \in DOMAIN configUpdate
                       THEN Some(configUpdate.model) ELSE ctx.globalState.model,
             apiEndpoint |-> IF "apiEndpoint" \in DOMAIN configUpdate
                             THEN Some(configUpdate.apiEndpoint)
                             ELSE ctx.globalState.apiEndpoint],
            IF "apiKey" \in DOMAIN configUpdate THEN Some(configUpdate.apiKey)
            ELSE ctx.secrets)

\* isConfigurationComplete
isConfigurationComplete(config) ==
    /\ config.apiKey # <<>>
    /\ config.model # ""
    /\ config.llmProvider # ""
    /\ validateApiKey(config.llmProvider, config.apiKey)

\* createMockLLMService
MockLLMService == [class |-> "mock"]

\* config.apiEndpoint as a condition: undefined and '' are falsy
Endpoint(config) ==
    IF config.apiEndpoint \in {Null, Some("")} THEN Null ELSE config.apiEndpoint

\* createLLMInstance: the chat model of the provider, or nothing where it throws
createLLMInstance(config) ==
    CASE config.llmProvider = "openai" ->
             Some([class |-> "ChatOpenAI", modelName |-> config.model,
                   apiKey |-> config.apiKey, baseURL |-> Endpoint(config)])
      [] config.llmProvider = "openai-compatible" ->
             Some([class |-> "ChatOpenAI", modelName |-> config.model,
                   apiKey |-> IF config.apiKey = <<>>
                              THEN <<"n", "o", "t", "-", "n", "e", "e", "d", "e", "d">>
                              ELSE config.apiKey,
                   baseURL |-> IF Endpoint(config) = Null THEN Some(Ollama)
                               ELSE Endpoint(config)])
      [] config.llmProvider = "anthropic" ->
             Some([class |-> "ChatAnthropic", modelName |-> config.model,
                   apiKey |-> config.apiKey, baseURL |-> Endpoint(config)])
      [] config.llmProvider = "gemini" ->
             Some([class |-> "ChatGoogleGenerativeAI", modelName |-> config.model,
                   apiKey |-> config.apiKey, baseURL |-> Endpoint(config)])
      [] OTHER -> Null

\* createLLMService: the mock service without a key, else the service over the
\* chat model of the provider, else the failure createLLMInstance throws
createLLMService(config) ==
    IF config.apiKey = <<>> \/ trim(config.apiKey) = <<>>
    THEN [success |-> TRUE, data |-> MockLLMService]
    ELSE IF createLLMInstance(config) = Null
         THEN [success |-> FALSE, data |-> MockLLMService]
         ELSE [success |-> TRUE, data |-> createLLMInstance(config)[1]]

\* the configuration the webview starts with: initialState.config of App
AppInitialConfig ==
    [llmProvider |-> "openai", model |-> "gpt-4", apiKey |-> <<>>, apiEndpoint |-> ""]

\* the two classes that host the webview: AviorWebviewProvider of
\* webviewProvider.ts and WebviewManager
WebviewHosts == {"AviorWebviewProvider", "WebviewManager"}

\* the webview after it loaded: no message in flight in either direction, the
\* configuration panel closed (formData is the state of a mounted ConfigPanel);
\* received tells that App has handled a configData message; edited names the
\* fields of the form the user has changed, with "stale" among them when the
\* panel was opened before any configData had arrived
InitialWebview(host) ==
    [host |-> host, posted |-> <<>>, config |-> AppInitialConfig, received |-> FALSE,
     formData |-> Null, edited |-> {}, sent |-> Null, sentEdited |-> {}]

\* no search made; the registry as the module creates it, no call on it
NoSearch == [content |-> <<>>, pattern |-> <<>>, matches |-> Null]
NoPluginCall == [op |-> "", id |-> "", handler |-> "", pc |-> "idle", result |-> FALSE]
MaxPluginCalls == 2
InitRest ==
    /\ search = NoSearch
    /\ pluginRegistry = [plugins |-> <<>>, enabledPlugins |-> {}]
    /\ pluginCalls = [c \in 1..MaxPluginCalls |-> NoPluginCall]

\* a fresh installation: nothing stored, no service made
InitExt ==
    /\ globalState = [provider |-> Null, model |-> Null, apiEndpoint |-> Null]
    /\ secrets = Null
    /\ llmService = Null
    /\ webview = InitialWebview("AviorWebviewProvider")
    /\ lcPc = [i \in 1..MaxLangChain |->
                  IF i \in agentExecutor THEN "returned success" ELSE ""]
    /\ InitRest

InitShared ==
    /\ agentState = [isActive |-> FALSE, currentTask |-> Null]
    /\ langchainAgent = Null
    /\ agentExecutor = {}
    /\ lcInitializing = {}
    /\ startPc = "idle"
    /\ fs = InitialFs
    /\ activeEditor \in {Null, Some(FileA)}
    /\ workspaceFolders \in {<<>>, <<WsRoot>>}
    /\ InitExt

Init ==
    /\ InitShared
    /\ proc = [p \in 1..1 |-> IdleProc]

(***************************************************************************)
(* The capabilities                                                        *)
(***************************************************************************)
\* fileService.getWorkspaceFiles: the text files under the workspace folders
\* (every path of the model has a text extension)
getWorkspaceFiles == IF workspaceFolders = <<>> THEN {} ELSE DOMAIN fs

\* vscode.workspace.fs.writeFile
writeFile(path, content) ==
    [f \in DOMAIN fs \cup {path} |-> IF f = path THEN content ELSE fs[f]]

\* the record of call p with one more capability call: its name, and whether it
\* succeeded
Logged(p, name, ok) == Append(proc[p].calls, <<name, ok>>)
Called(p, name) == Logged(p, name, TRUE)

(***************************************************************************)
(* The session: start, stop, useLangChain                                  *)
(***************************************************************************)
\* start(): an active session only shows 'Agent is already active'; else the
\* workspace enumeration begins
StartAgent ==
    /\ startPc = "idle"
    /\ startPc' = IF agentState.isActive THEN "already showMessage"
                  ELSE "getWorkspaceFiles"
    /\ UNCHANGED <<agentState, langchainAgent, agentExecutor, lcInitializing, fs,
                   activeEditor, workspaceFolders, proc, ext>>

\* start(): the workspace enumeration resolves, isActive is set and the success
\* message shown; or it fails and the catch block shows the failure
StartAgentListed ==
    /\ startPc = "getWorkspaceFiles"
    /\ \E ok \in BOOLEAN :
           IF ok
           THEN /\ agentState' = [agentState EXCEPT !.isActive = TRUE]
                /\ startPc' = "started showMessage"
           ELSE /\ agentState' = agentState
                /\ startPc' = "catch showMessage"
    /\ UNCHANGED <<langchainAgent, agentExecutor, lcInitializing, fs, activeEditor,
                   workspaceFolders, proc, ext>>

\* start(): showMessage ends and start() returns success; or it fails and the
\* catch block shows the failure
StartAgentNotified ==
    /\ startPc \in {"already showMessage", "started showMessage"}
    /\ \E ok \in BOOLEAN : startPc' = IF ok THEN "idle" ELSE "catch showMessage"
    /\ UNCHANGED <<agentState, langchainAgent, agentExecutor, lcInitializing, fs,
                   activeEditor, workspaceFolders, proc, ext>>

\* start(): the catch block has shown 'Failed to start agent' and start() returns
\* the failure; or showMessage fails again and start() is rejected
StartAgentFailureNotified ==
    /\ startPc = "catch showMessage"
    /\ startPc' = "idle"
    /\ UNCHANGED <<agentState, langchainAgent, agentExecutor, lcInitializing, fs,
                   activeEditor, workspaceFolders, proc, ext>>

\* stop()
StopAgent ==
    /\ agentState' = [agentState EXCEPT !.isActive = FALSE, !.currentTask = Null]
    /\ UNCHANGED <<langchainAgent, agentExecutor, lcInitializing, startPc, fs,
                   activeEditor, workspaceFolders, proc, ext>>

\* useLangChain(): a new LangChainAgentService replaces the current one and its
\* initialize() begins
UseLangChain ==
    /\ \E i \in 1..MaxLangChain :
           /\ i \notin agentExecutor \cup lcInitializing
           /\ \A j \in 1..(i - 1) : j \in agentExecutor \cup lcInitializing
           /\ lcPc[i] \in {"", "returned failure"}
           /\ langchainAgent' = Some(i)
           /\ lcInitializing' = lcInitializing \cup {i}
           /\ lcPc' = [lcPc EXCEPT ![i] = "initialize"]
    /\ UNCHANGED <<agentState, agentExecutor, startPc, fs, activeEditor,
                   workspaceFolders, proc, globalState, secrets, llmService, webview, rest>>

\* initialize() of an instance ends: agentExecutor is set and the success
\* message is shown, or it throws and the catch block shows the failure
LangChainInitialized ==
    /\ \E i \in lcInitializing, ok \in BOOLEAN :
           /\ lcInitializing' = lcInitializing \ {i}
           /\ agentExecutor' = IF ok THEN agentExecutor \cup {i} ELSE agentExecutor
           /\ lcPc' = [lcPc EXCEPT ![i] = IF ok THEN "success showMessage"
                                          ELSE "failure showMessage"]
    /\ UNCHANGED <<agentState, langchainAgent, startPc, fs, activeEditor,
                   workspaceFolders, proc, globalState, secrets, llmService, webview, rest>>

\* useLangChain(): showMessage ends and the call returns success, or showMessage
\* throws into the catch block; the catch block has shown the failure and the
\* call returns it
LangChainNotified ==
    /\ \E i \in 1..MaxLangChain :
           \/ /\ lcPc[i] = "success showMessage"
              /\ \E ok \in BOOLEAN :
                     lcPc' = [lcPc EXCEPT ![i] = IF ok THEN "returned success"
                                                ELSE "failure showMessage"]
           \/ /\ lcPc[i] = "failure showMessage"
              /\ lcPc' = [lcPc EXCEPT ![i] = "returned failure"]
    /\ UNCHANGED <<agentState, langchainAgent, agentExecutor, lcInitializing, startPc,
                   fs, activeEditor, workspaceFolders, proc, globalState, secrets,
                   llmService, webview, rest>>

\* langchainAgent && langchainAgent.isInitialized()
LangChainReady == langchainAgent # Null /\ langchainAgent[1] \in agentExecutor

\* the user brings another editor to the front, or closes the editors
FocusEditor ==
    /\ activeEditor' \in {Null} \cup {Some(f) : f \in DOMAIN fs}
    /\ activeEditor' # activeEditor
    /\ UNCHANGED <<agentState, langchainAgent, agentExecutor, lcInitializing, startPc,
                   fs, workspaceFolders, proc, ext>>

(***************************************************************************)
(* processAgentRequest                                                     *)
(***************************************************************************)
\* the executor returns an action to executeAction
ReturnAfter(p, name, action) ==
    proc' = [proc EXCEPT ![p].pc = "executor returned", ![p].result = action,
                         ![p].calls = Called(p, name)]

\* the executor throws to executeAction, after the capability call name
Throw(p, name, e) ==
    proc' = [proc EXCEPT ![p].pc = "executor threw", ![p].err = e,
                         ![p].calls = Logged(p, name, FALSE)]

\* the call goes on to await another capability call
Await(p, name, next) ==
    proc' = [proc EXCEPT ![p].pc = next, ![p].calls = Called(p, name)]

\* processRequest(request): currentTask is set; the LangChain agent is invoked
\* if it is initialized, else determineAction sends the classification prompt
BeginRequest(p, r) ==
    /\ \A q \in Procs : proc[q].req.id # r.id
    /\ agentState' = [agentState EXCEPT !.currentTask = Some(r.prompt)]
    /\ proc' = [proc EXCEPT ![p].req = r,
                            ![p].pc = IF LangChainReady THEN "langchain invoke"
                                      ELSE "classify generateResponse"]
    /\ UNCHANGED <<langchainAgent, agentExecutor, lcInitializing, startPc, fs,
                   activeEditor, workspaceFolders, ext>>

\* a caller that holds the agent calls processRequest
ProcessRequest(p) ==
    /\ proc[p].pc = "idle"
    /\ \A q \in Procs : q < p => proc[q].pc # "idle"
    /\ \E r \in Requests : BeginRequest(p, r)

\* langchainAgent.processRequest ends: the output, 'No output generated' for an
\* empty one, "Error: ..." when the executor failed; currentTask is cleared and
\* the response returned
LangChainReturn(p) ==
    /\ proc[p].pc = "langchain invoke"
    /\ \E out \in {Ok(t) : t \in LlmTexts} \cup {Ok(<<>>), Failed} :
           LET content == IF ~out.ok THEN Content("Error: ", "LangChainError", <<>>)
                          ELSE IF out.text = <<>> THEN Content("No output generated", "", <<>>)
                          ELSE Content("", "", out.text)
           IN  proc' = [proc EXCEPT
                   ![p].pc = "resolved",
                   ![p].calls = Called(p, "clearTask"),
                   ![p].resp = Some(Response(proc[p].req,
                                             Action("respond", Null, content, ""),
                                             "Processed with LangChain agent"))]
    /\ agentState' = [agentState EXCEPT !.currentTask = Null]
    /\ UNCHANGED <<langchainAgent, agentExecutor, lcInitializing, startPc, fs,
                   activeEditor, workspaceFolders, ext>>

\* a switch whose analyze executor asks for a file although an editor is in
\* front
DispatchedAnalyzePicks(p, kind) ==
    CASE kind = "search" ->
           [proc[p] EXCEPT !.kind = kind, !.pc = "search showProgress"]
      [] kind = "edit" ->
           IF activeEditor # Null
           THEN [proc[p] EXCEPT !.kind = kind, !.pc = "edit readFile",
                                !.target = activeEditor]
           ELSE [proc[p] EXCEPT !.kind = kind, !.pc = "edit getWorkspaceFiles"]
      [] kind = "create" ->
           [proc[p] EXCEPT !.kind = kind, !.pc = "create generateResponse"]
      [] kind = "analyze" ->
           [proc[p] EXCEPT !.kind = kind, !.pc = "analyze getWorkspaceFiles"]
      [] OTHER ->
           [proc[p] EXCEPT !.kind = kind, !.pc = "respond generateResponse"]

\* executeAction: the switch on action.type, up to the first capability call the
\* chosen executor awaits
Dispatched(p, kind) ==
    CASE kind = "search" ->
           [proc[p] EXCEPT !.kind = kind, !.pc = "search showProgress"]
      [] kind = "edit" ->
           IF activeEditor # Null
           THEN [proc[p] EXCEPT !.kind = kind, !.pc = "edit readFile",
                                !.target = activeEditor]
           ELSE [proc[p] EXCEPT !.kind = kind, !.pc = "edit getWorkspaceFiles"]
      [] kind = "create" ->
           [proc[p] EXCEPT !.kind = kind, !.pc = "create generateResponse"]
      [] kind = "analyze" ->
           IF activeEditor # Null
           THEN [proc[p] EXCEPT !.kind = kind, !.pc = "analyze analyzeCode",
                                !.target = activeEditor,
                                !.content = fs[activeEditor[1]]]
           ELSE [proc[p] EXCEPT !.kind = kind, !.pc = "analyze getWorkspaceFiles"]
      [] OTHER ->
           [proc[p] EXCEPT !.kind = kind, !.pc = "respond generateResponse"]

\* the outcomes of the generateResponse call of determineAction
ClassifyOutcomes == {Ok(t) : t \in ClassifyReplies} \cup {Failed}

\* determineAction for every prompt and outcome of the model, computed once
determineActionOf ==
    [prompt \in {r.prompt : r \in Requests} \cup ScanPrompts |->
        [llm \in ClassifyOutcomes |-> determineAction(prompt, llm)]]

\* determineAction: its generateResponse call ends (the model replied, or the
\* call failed) and it returns an action
Classify(p) ==
    /\ proc[p].pc = "classify generateResponse"
    /\ \E llm \in ClassifyOutcomes :
           proc' = [proc EXCEPT
                       ![p].pc = "classified",
                       ![p].reply = Some(llm),
                       ![p].kind = determineActionOf[proc[p].req.prompt][llm]]
    /\ UNCHANGED shared

\* determineAction of src/agent.ts: the same step with that version's keyword scan
ClassifyAgentTs(p) ==
    /\ proc[p].pc = "classify generateResponse"
    /\ \E llm \in {Ok(t) : t \in ClassifyReplies} \cup {Failed} :
           proc' = [proc EXCEPT
                       ![p].pc = "classified",
                       ![p].reply = Some(llm),
                       ![p].kind = determineActionAgentTs(proc[p].req.prompt, llm)]
    /\ UNCHANGED shared

\* processAgentRequest has the action of determineAction and calls
\* executeAction, which dispatches on its type
Dispatch(p) ==
    /\ proc[p].pc = "classified"
    /\ proc' = [proc EXCEPT
                   ![p] = [Dispatched(p, proc[p].kind) EXCEPT !.reply = Null]]
    /\ UNCHANGED shared

\* the response action: generateResponse ends
RespondGenerated(p) ==
    /\ proc[p].pc = "respond generateResponse"
    /\ \E llm \in {Ok(t) : t \in LlmTexts} \cup {Failed} :
           IF llm.ok
           THEN proc' = [proc EXCEPT ![p].pc = "respond showMessage",
                                     ![p].content = llm.text,
                                     ![p].calls = Called(p, "generateResponse")]
           ELSE Throw(p, "generateResponse", "LLMError")
    /\ UNCHANGED shared

\* the response action: showMessage ends
RespondNotified(p) ==
    /\ proc[p].pc = "respond showMessage"
    /\ \E ok \in BOOLEAN :
           IF ok
           THEN ReturnAfter(p, "showMessage",
                            Action("respond", Null, Content("", "", proc[p].content),
                                   "Generated AI response"))
           ELSE Throw(p, "showMessage", "UIError")
    /\ UNCHANGED shared

\* the response is returned with currentTask left as it is
FinishKeepsTask(p) ==
    /\ proc[p].pc = "executor returned"
    /\ proc' = [proc EXCEPT
                   ![p].pc = "resolved",
                   ![p].resp = Some(Response(proc[p].req, proc[p].result,
                                             "Processed request: "))]
    /\ UNCHANGED shared

\* the executor has returned: currentTask is cleared and the response returned
Finish(p) ==
    /\ proc[p].pc = "executor returned"
    /\ agentState' = [agentState EXCEPT !.currentTask = Null]
    /\ proc' = [proc EXCEPT
                   ![p].pc = "resolved",
                   ![p].calls = Called(p, "clearTask"),
                   ![p].resp = Some(Response(proc[p].req, proc[p].result,
                                             "Processed request: "))]
    /\ UNCHANGED <<langchainAgent, agentExecutor, lcInitializing, startPc, fs,
                   activeEditor, workspaceFolders, ext>>

\* a catch block that clears currentTask only when it holds the prompt of this
\* call
CatchClearsOwnTask(p) ==
    /\ proc[p].pc = "executor threw"
    /\ agentState' = IF agentState.currentTask = Some(proc[p].req.prompt)
                     THEN [agentState EXCEPT !.currentTask = Null]
                     ELSE agentState
    /\ proc' = [proc EXCEPT ![p].pc = "catch showMessage",
                            ![p].calls = Called(p, "clearTask")]
    /\ UNCHANGED <<langchainAgent, agentExecutor, lcInitializing, startPc, fs,
                   activeEditor, workspaceFolders, ext>>

\* the catch block: currentTask is cleared and the error message shown
Catch(p) ==
    /\ proc[p].pc = "executor threw"
    /\ agentState' = [agentState EXCEPT !.currentTask = Null]
    /\ proc' = [proc EXCEPT ![p].pc = "catch showMessage",
                            ![p].calls = Called(p, "clearTask")]
    /\ UNCHANGED <<langchainAgent, agentExecutor, lcInitializing, startPc, fs,
                   activeEditor, workspaceFolders, ext>>

\* the catch block: showMessage ends and the error response is returned; if
\* showMessage throws, the promise of processRequest is rejected
CatchNotified(p) ==
    /\ proc[p].pc = "catch showMessage"
    /\ \E ok \in BOOLEAN :
           IF ok
           THEN proc' = [proc EXCEPT
                    ![p].pc = "resolved",
                    ![p].calls = Called(p, "showMessage"),
                    ![p].resp = Some(Response(proc[p].req,
                                    Action("respond", Null,
                                           Content("Error: ", proc[p].err, <<>>), ""),
                                    "Failed to process request"))]
           ELSE proc' = [proc EXCEPT ![p].pc = "rejected", ![p].err = "UIError",
                                     ![p].calls = Logged(p, "showMessage", FALSE)]
    /\ UNCHANGED shared

(***************************************************************************)
(* executeSearchAction                                                     *)
(***************************************************************************)
\* showProgress runs the task, which calls searchInFiles, or fails
SearchProgress(p) ==
    /\ proc[p].pc = "search showProgress"
    /\ \E ok \in BOOLEAN :
           IF ok THEN Await(p, "showProgress", "search searchInFiles")
           ELSE Throw(p, "showProgress", "UIError")
    /\ UNCHANGED shared

\* searchInFiles ends: no match, matches (the first in some file), or a failure
\* (the search terms are compiled as a regular expression); showMessage follows
SearchSearched(p) ==
    /\ proc[p].pc = "search searchInFiles"
    /\ \E hit \in {Null} \cup {Some(f) : f \in getWorkspaceFiles}, ok \in BOOLEAN :
           IF ok
           THEN proc' = [proc EXCEPT ![p].pc = "search showMessage",
                                     ![p].target = hit,
                                     ![p].calls = Called(p, "searchInFiles")]
           ELSE Throw(p, "searchInFiles", "SearchError")
    /\ UNCHANGED shared

\* the action of the search executor under the type of another executor
SearchActionAsAnalyze(p) ==
    Action("analyze", Null, Content("Searched for: ", "", proc[p].req.prompt),
           "Completed search operation")

\* the action the search executor returns
SearchAction(p) ==
    Action("search", Null, Content("Searched for: ", "", proc[p].req.prompt),
           "Completed search operation")

\* showMessage ends: with matches the first file is opened, else the task and
\* showProgress end and the executor returns
SearchNotified(p) ==
    /\ proc[p].pc = "search showMessage"
    /\ \E ok \in BOOLEAN :
           IF ~ok THEN Throw(p, "showMessage", "UIError")
           ELSE IF proc[p].target # Null THEN Await(p, "showMessage", "search openFile")
           ELSE ReturnAfter(p, "showMessage", SearchAction(p))
    /\ UNCHANGED shared

\* openFile ends
SearchOpened(p) ==
    /\ proc[p].pc = "search openFile"
    /\ \E ok \in BOOLEAN :
           IF ok
           THEN /\ ReturnAfter(p, "openFile", SearchAction(p))
                /\ activeEditor' = proc[p].target
           ELSE /\ Throw(p, "openFile", "OpenError")
                /\ UNCHANGED activeEditor
    /\ UNCHANGED <<agentState, langchainAgent, agentExecutor, lcInitializing, startPc,
                   fs, workspaceFolders, ext>>

(***************************************************************************)
(* The file picker of executeEditAction and executeAnalyzeAction           *)
(***************************************************************************)
\* getWorkspaceFiles ends: the files are listed and showQuickPick opens
FilesListed(p) ==
    /\ proc[p].pc \in {"edit getWorkspaceFiles", "analyze getWorkspaceFiles"}
    /\ \E ok \in BOOLEAN :
           IF ok
           THEN proc' = [proc EXCEPT
                    ![p].pc = IF proc[p].kind = "edit" THEN "edit showQuickPick"
                              ELSE "analyze showQuickPick",
                    ![p].listed = getWorkspaceFiles,
                    ![p].calls = Called(p, "getWorkspaceFiles")]
           ELSE Throw(p, "getWorkspaceFiles", "ListError")
    /\ UNCHANGED shared

\* showQuickPick ends: a file is picked and read, or the picker is dismissed,
\* or the call fails
FilePicked(p) ==
    /\ proc[p].pc \in {"edit showQuickPick", "analyze showQuickPick"}
    /\ \E pick \in {Null} \cup {Some(f) : f \in proc[p].listed}, ok \in BOOLEAN :
           IF ~ok THEN Throw(p, "showQuickPick", "UIError")
           ELSE IF pick = Null
           THEN ReturnAfter(p, "showQuickPick",
                    IF proc[p].kind = "edit"
                    THEN Action("respond", Null,
                                Content("No file selected for editing", "", <<>>),
                                "User cancelled file selection")
                    ELSE Action("respond", Null,
                                Content("No file selected for analysis", "", <<>>),
                                "User cancelled file selection"))
           ELSE proc' = [proc EXCEPT
                    ![p].pc = IF proc[p].kind = "edit" THEN "edit readFile"
                              ELSE "analyze readFile",
                    ![p].target = pick,
                    ![p].calls = Called(p, "showQuickPick")]
    /\ UNCHANGED shared

(***************************************************************************)
(* executeEditAction                                                       *)
(***************************************************************************)
\* readFile ends; the edit prompt is sent
EditRead(p) ==
    /\ proc[p].pc = "edit readFile"
    /\ \E ok \in BOOLEAN :
           IF ok /\ proc[p].target[1] \in DOMAIN fs
           THEN Await(p, "readFile", "edit generateResponse")
           ELSE Throw(p, "readFile", "ReadError")
    /\ UNCHANGED shared

\* the check without the trim: white space counts as code
HasCodeUntrimmed(cleanedContent) == cleanedContent # <<>>

\* cleanedContent && cleanedContent.trim().length > 0
HasCode(cleanedContent) == cleanedContent # <<>> /\ Len(trim(cleanedContent)) > 0

\* generateResponse ends: the reply is cleaned; if code is left writeFile is
\* called, else the executor reports that nothing was generated
EditGenerated(p) ==
    /\ proc[p].pc = "edit generateResponse"
    /\ \E llm \in {Ok(t) : t \in RawContents} \cup {Failed} :
           IF ~llm.ok THEN Throw(p, "generateResponse", "LLMError")
           ELSE LET cleanedContent == cleanCodeContent(llm.text)
                IN  IF HasCode(cleanedContent)
                    THEN proc' = [proc EXCEPT ![p].pc = "edit writeFile",
                                              ![p].content = cleanedContent,
                                              ![p].calls = Called(p, "generateResponse")]
                    ELSE proc' = [proc EXCEPT
                             ![p].pc = "executor returned",
                             ![p].content = cleanedContent,
                             ![p].calls = Called(p, "generateResponse"),
                             ![p].result =
                                 Action("respond", Null,
                                        Content("No valid code changes generated", "", <<>>),
                                        "Generated content was empty or invalid")]
    /\ UNCHANGED shared

\* the edit and the create executor clean the reply they hold
CleanCodeContent(p) ==
    /\ proc[p].pc = "cleanCodeContent"
    /\ proc' = [proc EXCEPT ![p].pc = "cleaned",
                            ![p].content = cleanCodeContent(proc[p].reply[1].text)]
    /\ UNCHANGED shared

\* the catch block of the write: showMessage of the failure
EditFailed(p, name, e) ==
    proc' = [proc EXCEPT ![p].pc = "edit failed showMessage", ![p].err = e,
                         ![p].calls = Logged(p, name, FALSE)]

\* writeFile ends: the file holds the cleaned content and is opened
EditWritten(p) ==
    /\ proc[p].pc = "edit writeFile"
    /\ \E ok \in BOOLEAN :
           IF ok
           THEN /\ fs' = writeFile(proc[p].target[1], proc[p].content)
                /\ Await(p, "writeFile", "edit openFile")
           ELSE /\ EditFailed(p, "writeFile", "WriteError")
                /\ UNCHANGED fs
    /\ UNCHANGED <<agentState, langchainAgent, agentExecutor, lcInitializing, startPc,
                   activeEditor, workspaceFolders, ext>>

\* openFile ends
EditOpened(p) ==
    /\ proc[p].pc = "edit openFile"
    /\ \E ok \in BOOLEAN :
           IF ok
           THEN /\ activeEditor' = proc[p].target
                /\ Await(p, "openFile", "edit showMessage")
           ELSE /\ EditFailed(p, "openFile", "OpenError")
                /\ UNCHANGED activeEditor
    /\ UNCHANGED <<agentState, langchainAgent, agentExecutor, lcInitializing, startPc,
                   fs, workspaceFolders, ext>>

\* showMessage of the update ends
EditNotified(p) ==
    /\ proc[p].pc = "edit showMessage"
    /\ \E ok \in BOOLEAN :
           IF ok
           THEN ReturnAfter(p, "showMessage",
                    Action("edit", proc[p].target,
                           Content("File Updated Successfully", "", proc[p].req.prompt),
                           "Successfully updated"))
           ELSE EditFailed(p, "showMessage", "UIError")
    /\ UNCHANGED shared

\* showMessage of the failure ends
EditFailureNotified(p) ==
    /\ proc[p].pc = "edit failed showMessage"
    /\ \E ok \in BOOLEAN :
           IF ok
           THEN ReturnAfter(p, "showMessage",
                    Action("respond", Null,
                           Content("File Update Failed", proc[p].err, <<>>),
                           "File update failed"))
           ELSE Throw(p, "showMessage", "UIError")
    /\ UNCHANGED shared

(***************************************************************************)
(* executeCreateAction                                                     *)
(***************************************************************************)
\* the catch block of the executor: showMessage of the failure
CreateFailed(p, name, e) ==
    proc' = [proc EXCEPT ![p].pc = "create failed showMessage", ![p].err = e,
                         ![p].calls = Logged(p, name, FALSE)]

\* `${workspaceFolder.uri.fsPath}/${fileName}.${extension}`
FullPath(root, details) == root \o <<"/">> \o details.fileName \o <<".">> \o details.extension

\* generateResponse ends: the reply is cleaned, the file named, and writeFile
\* called; without a workspace folder the executor throws into its catch block
CreateGenerated(p) ==
    /\ proc[p].pc = "create generateResponse"
    /\ \E llm \in {Ok(t) : t \in RawContents} \cup {Failed} :
           IF ~llm.ok THEN CreateFailed(p, "generateResponse", "LLMError")
           ELSE IF workspaceFolders = <<>>
           THEN proc' = [proc EXCEPT ![p].pc = "create failed showMessage",
                                     ![p].err = "No workspace folder found",
                                     ![p].calls = Called(p, "generateResponse")]
           ELSE LET cleanedContent == cleanCodeContent(llm.text)
                    details == determineFileDetails(proc[p].req.prompt, cleanedContent)
                IN  proc' = [proc EXCEPT
                        ![p].pc = "create writeFile",
                        ![p].content = cleanedContent,
                        ![p].target = Some(FullPath(workspaceFolders[1], details)),
                        ![p].calls = Called(p, "generateResponse")]
    /\ UNCHANGED shared

\* writeFile ends: the file holds the cleaned content and is opened
CreateWritten(p) ==
    /\ proc[p].pc = "create writeFile"
    /\ \E ok \in BOOLEAN :
           IF ok
           THEN /\ fs' = writeFile(proc[p].target[1], proc[p].content)
                /\ Await(p, "writeFile", "create openFile")
           ELSE /\ CreateFailed(p, "writeFile", "WriteError")
                /\ UNCHANGED fs
    /\ UNCHANGED <<agentState, langchainAgent, agentExecutor, lcInitializing, startPc,
                   activeEditor, workspaceFolders, ext>>

\* openFile ends
CreateOpened(p) ==
    /\ proc[p].pc = "create openFile"
    /\ \E ok \in BOOLEAN :
           IF ok
           THEN /\ activeEditor' = proc[p].target
                /\ Await(p, "openFile", "create showMessage")
           ELSE /\ CreateFailed(p, "openFile", "OpenError")
                /\ UNCHANGED activeEditor
    /\ UNCHANGED <<agentState, langchainAgent, agentExecutor, lcInitializing, startPc,
                   fs, workspaceFolders, ext>>

\* showMessage of the creation ends
CreateNotified(p) ==
    /\ proc[p].pc = "create showMessage"
    /\ \E ok \in BOOLEAN :
           IF ok
           THEN ReturnAfter(p, "showMessage",
                    Action("create", proc[p].target,
                           Content("File Created Successfully", "", proc[p].content),
                           "Successfully created new file"))
           ELSE CreateFailed(p, "showMessage", "UIError")
    /\ UNCHANGED shared

\* showMessage of the failure ends
CreateFailureNotified(p) ==
    /\ proc[p].pc = "create failed showMessage"
    /\ \E ok \in BOOLEAN :
           IF ok
           THEN ReturnAfter(p, "showMessage",
                    Action("respond", Null,
                           Content("File Creation Failed", proc[p].err, <<>>),
                           "File creation failed"))
           ELSE Throw(p, "showMessage", "UIError")
    /\ UNCHANGED shared

(***************************************************************************)
(* executeAnalyzeAction                                                    *)
(***************************************************************************)
\* readFile of the picked file ends; analyzeCode is called with its content
AnalyzeRead(p) ==
    /\ proc[p].pc = "analyze readFile"
    /\ \E ok \in BOOLEAN :
           IF ok /\ proc[p].target[1] \in DOMAIN fs
           THEN proc' = [proc EXCEPT ![p].pc = "analyze analyzeCode",
                                     ![p].content = fs[proc[p].target[1]],
                                     ![p].calls = Called(p, "readFile")]
           ELSE Throw(p, "readFile", "ReadError")
    /\ UNCHANGED shared

\* analyzeCode ends; showMessage follows
AnalyzeAnalyzed(p) ==
    /\ proc[p].pc = "analyze analyzeCode"
    /\ \E llm \in {Ok(t) : t \in LlmTexts} \cup {Failed} :
           IF llm.ok
           THEN proc' = [proc EXCEPT ![p].pc = "analyze showMessage",
                                     ![p].content = llm.text,
                                     ![p].calls = Called(p, "analyzeCode")]
           ELSE Throw(p, "analyzeCode", "LLMError")
    /\ UNCHANGED shared

\* showMessage ends
AnalyzeNotified(p) ==
    /\ proc[p].pc = "analyze showMessage"
    /\ \E ok \in BOOLEAN :
           IF ok
           THEN ReturnAfter(p, "showMessage",
                    Action("analyze", proc[p].target,
                           Content("", "", proc[p].content), "Completed code analysis"))
           ELSE Throw(p, "showMessage", "UIError")
    /\ UNCHANGED shared

(***************************************************************************)
(* processAgentRequestStream                                               *)
(***************************************************************************)
\* processRequestStream(request, onToken): currentTask is set and
\* generateResponseStream opens the stream
BeginStream(p, r) ==
    /\ \A q \in Procs : proc[q].req.id # r.id
    /\ agentState' = [agentState EXCEPT !.currentTask = Some(r.prompt)]
    /\ proc' = [proc EXCEPT ![p].req = r, ![p].pc = "stream open"]
    /\ UNCHANGED <<langchainAgent, agentExecutor, lcInitializing, startPc, fs,
                   activeEditor, workspaceFolders, ext>>

\* a caller that holds the agent calls processRequestStream
ProcessRequestStream(p) ==
    /\ proc[p].pc = "idle"
    /\ \A q \in Procs : q < p => proc[q].pc # "idle"
    /\ \E r \in Requests : BeginStream(p, r)

(***************************************************************************)
(* The entry paths of the extension                                        *)
(***************************************************************************)
\* the askAgent command: an inactive session is told so and nothing is called;
\* else the quick actions menu is shown
AskAgent(p) ==
    /\ proc[p].pc = "idle"
    /\ \A q \in Procs : q < p => proc[q].pc # "idle"
    /\ proc' = [proc EXCEPT ![p].pc = IF agentState.isActive
                                      THEN "askAgent showQuickActionsMenu"
                                      ELSE "declined"]
    /\ UNCHANGED shared

\* askAgent: the user picks an action, and the input box is shown, or picks
\* none (or the plugins or configuration entry) and askAgent returns
AskAgentMenu(p) ==
    /\ proc[p].pc = "askAgent showQuickActionsMenu"
    /\ \E picked \in BOOLEAN :
           proc' = [proc EXCEPT ![p].pc = IF picked THEN "askAgent showInputBox"
                                          ELSE "returned"]
    /\ UNCHANGED shared

\* askAgent: the user enters a prompt and processRequest is called, or enters
\* none and askAgent returns
AskAgentInput(p) ==
    /\ proc[p].pc = "askAgent showInputBox"
    /\ \/ \E r \in Requests : BeginRequest(p, r)
       \/ /\ proc' = [proc EXCEPT ![p].pc = "returned"]
          /\ UNCHANGED shared

\* AviorWebviewProvider.processAgentRequest: an inactive session is told so;
\* else processRequest is called
WebviewProviderChat(p) ==
    /\ proc[p].pc = "idle"
    /\ \A q \in Procs : q < p => proc[q].pc # "idle"
    /\ IF agentState.isActive
       THEN \E r \in Requests : BeginRequest(p, r)
       ELSE /\ proc' = [proc EXCEPT ![p].pc = "declined"]
            /\ UNCHANGED shared

\* WebviewManager.requiresActionProcessing
requiresActionProcessing(text) ==
    \E keyword \in {<<"c", "r", "e", "a", "t", "e">>, <<"n", "e", "w">>, <<"a", "d", "d">>, <<"g", "e", "n", "e", "r", "a", "t", "e">>,
                    <<"e", "d", "i", "t">>, <<"m", "o", "d", "i", "f", "y">>, <<"c", "h", "a", "n", "g", "e">>, <<"u", "p", "d", "a", "t", "e">>, <<"r", "e", "f", "a", "c", "t", "o", "r">>,
                    <<"s", "e", "a", "r", "c", "h">>, <<"f", "i", "n", "d">>, <<"l", "o", "o", "k", " ", "f", "o", "r">>, <<"l", "o", "c", "a", "t", "e">>,
                    <<"a", "n", "a", "l", "y", "z", "e">>, <<"r", "e", "v", "i", "e", "w">>, <<"e", "x", "p", "l", "a", "i", "n">>, <<"c", "h", "e", "c", "k">>} :
        includes(toLowerCase(text), keyword)

\* WebviewManager.handleChatMessage: the agent instance exists; a message with
\* an action keyword goes to processRequest, any other to processRequestStream
WebviewManagerChat(p) ==
    /\ proc[p].pc = "idle"
    /\ \A q \in Procs : q < p => proc[q].pc # "idle"
    /\ \E r \in ChatRequests :
           IF requiresActionProcessing(r.prompt) THEN BeginRequest(p, r)
           ELSE BeginStream(p, r)

\* WebviewManager.handleChatMessage for the texts of the keyword scan
WebviewManagerChatScan(p) ==
    /\ proc[p].pc = "idle"
    /\ \E r \in ScanRequests :
           IF requiresActionProcessing(r.prompt) THEN BeginRequest(p, r)
           ELSE BeginStream(p, r)

\* llm.stream ends: the stream is open, or the call fails
StreamOpened(p) ==
    /\ proc[p].pc = "stream open"
    /\ \E ok \in BOOLEAN :
           IF ok THEN Await(p, "stream", "stream chunk")
           ELSE proc' = [proc EXCEPT ![p].pc = "stream threw", ![p].err = "LLMError",
                                     ![p].calls = Logged(p, "stream", FALSE)]
    /\ UNCHANGED shared

\* the next chunk: it is added to fullResponse and handed to onToken, which may
\* throw; or the stream breaks
StreamChunk(p) ==
    /\ proc[p].pc = "stream chunk"
    /\ Len(proc[p].delivered) < MaxChunks
    /\ \E outcome \in {"ok", "onToken throws", "stream fails"} :
           LET token == Tokens[(Len(proc[p].delivered) % Len(Tokens)) + 1] IN
           CASE outcome = "ok" ->
                  proc' = [proc EXCEPT ![p].content = @ \o token,
                                       ![p].delivered = Append(@, token)]
             [] outcome = "onToken throws" ->
                  proc' = [proc EXCEPT ![p].content = @ \o token,
                                       ![p].delivered = Append(@, token),
                                       ![p].pc = "stream threw",
                                       ![p].err = "TokenCallbackError",
                                       ![p].calls = Logged(p, "onToken", FALSE)]
             [] outcome = "stream fails" ->
                  proc' = [proc EXCEPT ![p].pc = "stream threw", ![p].err = "LLMError",
                                       ![p].calls = Logged(p, "stream", FALSE)]
    /\ UNCHANGED shared

\* the stream ends: generateResponseStream returns fullResponse
StreamEnd(p) ==
    /\ proc[p].pc = "stream chunk"
    /\ proc' = [proc EXCEPT ![p].pc = "stream returned"]
    /\ UNCHANGED shared

\* generateResponseStream has returned: currentTask is cleared and the response
\* returned
StreamFinish(p) ==
    /\ proc[p].pc = "stream returned"
    /\ agentState' = [agentState EXCEPT !.currentTask = Null]
    /\ proc' = [proc EXCEPT
                   ![p].pc = "resolved",
                   ![p].calls = Called(p, "clearTask"),
                   ![p].resp = Some(Response(proc[p].req,
                                    Action("respond", Null,
                                           Content("", "", proc[p].content), ""),
                                    "Processed request: "))]
    /\ UNCHANGED <<langchainAgent, agentExecutor, lcInitializing, startPc, fs,
                   activeEditor, workspaceFolders, ext>>

\* the catch block: currentTask is cleared, the error message handed to onToken
\* and returned as the response; if onToken throws, the promise is rejected
StreamCatch(p) ==
    /\ proc[p].pc = "stream threw"
    /\ agentState' = [agentState EXCEPT !.currentTask = Null]
    /\ \E ok \in BOOLEAN :
           IF ok
           THEN proc' = [proc EXCEPT
                    ![p].pc = "resolved",
                    ![p].calls = Called(p, "clearTask") \o <<<<"onToken", TRUE>>>>,
                    ![p].delivered = Append(@, <<"Agent error: ", proc[p].err>>),
                    ![p].resp = Some(Response(proc[p].req,
                                    Action("respond", Null,
                                           Content("Agent error: ", proc[p].err, <<>>), ""),
                                    "Failed to process request"))]
           ELSE proc' = [proc EXCEPT
                    ![p].pc = "rejected", ![p].err = "TokenCallbackError",
                    ![p].calls = Called(p, "clearTask") \o <<<<"onToken", FALSE>>>>,
                    ![p].delivered = Append(@, <<"Agent error: ", proc[p].err>>)]
    /\ UNCHANGED <<langchainAgent, agentExecutor, lcInitializing, startPc, fs,
                   activeEditor, workspaceFolders, ext>>

(***************************************************************************)
(* The specification                                                       *)
(***************************************************************************)
\* one call at a time, with the whole session around it
Next ==
    \/ StartAgent
    \/ StartAgentListed
    \/ StartAgentNotified
    \/ StartAgentFailureNotified
    \/ StopAgent
    \/ UseLangChain
    \/ LangChainInitialized
    \/ LangChainNotified
    \/ FocusEditor
    \/ \E p \in Procs : AskAgent(p)
    \/ \E p \in Procs : AskAgentMenu(p)
    \/ \E p \in Procs : AskAgentInput(p)
    \/ \E p \in Procs : WebviewProviderChat(p)
    \/ \E p \in Procs : WebviewManagerChat(p)
    \/ \E p \in Procs : LangChainReturn(p)
    \/ \E p \in Procs : Classify(p)
    \/ \E p \in Procs : Dispatch(p)
    \/ \E p \in Procs : SearchProgress(p)
    \/ \E p \in Procs : SearchSearched(p)
    \/ \E p \in Procs : SearchNotified(p)
    \/ \E p \in Procs : SearchOpened(p)
    \/ \E p \in Procs : FilesListed(p)
    \/ \E p \in Procs : FilePicked(p)
    \/ \E p \in Procs : EditRead(p)
    \/ \E p \in Procs : EditGenerated(p)
    \/ \E p \in Procs : EditWritten(p)
    \/ \E p \in Procs : EditOpened(p)
    \/ \E p \in Procs : EditNotified(p)
    \/ \E p \in Procs : EditFailureNotified(p)
    \/ \E p \in Procs : CreateGenerated(p)
    \/ \E p \in Procs : CreateWritten(p)
    \/ \E p \in Procs : CreateOpened(p)
    \/ \E p \in Procs : CreateNotified(p)
    \/ \E p \in Procs : CreateFailureNotified(p)
    \/ \E p \in Procs : AnalyzeRead(p)
    \/ \E p \in Procs : AnalyzeAnalyzed(p)
    \/ \E p \in Procs : AnalyzeNotified(p)
    \/ \E p \in Procs : RespondGenerated(p)
    \/ \E p \in Procs : RespondNotified(p)
    \/ \E p \in Procs : Finish(p)
    \/ \E p \in Procs : Catch(p)
    \/ \E p \in Procs : CatchNotified(p)
    \/ \E p \in Procs : StreamOpened(p)
    \/ \E p \in Procs : StreamChunk(p)
    \/ \E p \in Procs : StreamEnd(p)
    \/ \E p \in Procs : StreamFinish(p)
    \/ \E p \in Procs : StreamCatch(p)

Spec == Init /\ [][Next]_vars

\* NumProcs calls that may overlap, in a workspace with a folder; the LangChain
\* agent is initialized or absent, and stop() may come at any time
InitConcurrent ==
    /\ agentState = [isActive |-> TRUE, currentTask |-> Null]
    /\ \/ langchainAgent = Null /\ agentExecutor = {}
       \/ langchainAgent = Some(1) /\ agentExecutor = {1}
    /\ lcInitializing = {}
    /\ startPc = "idle"
    /\ fs = InitialFs
    /\ activeEditor = Null
    /\ workspaceFolders = <<WsRoot>>
    /\ InitExt
    /\ proc = [p \in 1..NumProcs |-> IdleProc]

NextConcurrent ==
    \/ StopAgent
    \/ \E p \in Procs : ProcessRequest(p)
    \/ \E p \in Procs : LangChainReturn(p)
    \/ \E p \in Procs : Classify(p)
    \/ \E p \in Procs : Dispatch(p)
    \/ \E p \in Procs : SearchProgress(p)
    \/ \E p \in Procs : SearchSearched(p)
    \/ \E p \in Procs : SearchNotified(p)
    \/ \E p \in Procs : SearchOpened(p)
    \/ \E p \in Procs : FilesListed(p)
    \/ \E p \in Procs : FilePicked(p)
    \/ \E p \in Procs : EditRead(p)
    \/ \E p \in Procs : EditGenerated(p)
    \/ \E p \in Procs : EditWritten(p)
    \/ \E p \in Procs : EditOpened(p)
    \/ \E p \in Procs : EditNotified(p)
    \/ \E p \in Procs : EditFailureNotified(p)
    \/ \E p \in Procs : CreateGenerated(p)
    \/ \E p \in Procs : CreateWritten(p)
    \/ \E p \in Procs : CreateOpened(p)
    \/ \E p \in Procs : CreateNotified(p)
    \/ \E p \in Procs : CreateFailureNotified(p)
    \/ \E p \in Procs : AnalyzeRead(p)
    \/ \E p \in Procs : AnalyzeAnalyzed(p)
    \/ \E p \in Procs : AnalyzeNotified(p)
    \/ \E p \in Procs : RespondGenerated(p)
    \/ \E p \in Procs : RespondNotified(p)
    \/ \E p \in Procs : Finish(p)
    \/ \E p \in Procs : Catch(p)
    \/ \E p \in Procs : CatchNotified(p)
    \/ \E p \in Procs : ProcessRequestStream(p)
    \/ \E p \in Procs : StreamOpened(p)
    \/ \E p \in Procs : StreamChunk(p)
    \/ \E p \in Procs : StreamEnd(p)
    \/ \E p \in Procs : StreamFinish(p)
    \/ \E p \in Procs : StreamCatch(p)

SpecConcurrent == InitConcurrent /\ [][NextConcurrent]_vars

\* two calls, and a user who changes the editor in front between their steps
NextFocus == NextConcurrent \/ FocusEditor

SpecFocus == InitConcurrent /\ [][NextFocus]_vars

(***************************************************************************)
(* One call under fair scheduling. The file, UI and editor capabilities    *)
(* answer, and so does generateResponse, which races the model against a   *)
(* timer of 30 seconds. generateResponseStream, analyzeCode and the        *)
(* LangChain executor await the model with no timer: nothing makes them    *)
(* answer.                                                                 *)
(***************************************************************************)
BoundedStep(p) ==
    \/ Classify(p) \/ Dispatch(p)
    \/ SearchProgress(p) \/ SearchSearched(p) \/ SearchNotified(p) \/ SearchOpened(p)
    \/ FilesListed(p) \/ FilePicked(p)
    \/ EditRead(p) \/ EditGenerated(p) \/ EditWritten(p) \/ EditOpened(p)
    \/ EditNotified(p) \/ EditFailureNotified(p)
    \/ CreateGenerated(p) \/ CreateWritten(p) \/ CreateOpened(p)
    \/ CreateNotified(p) \/ CreateFailureNotified(p)
    \/ AnalyzeRead(p) \/ AnalyzeNotified(p)
    \/ RespondGenerated(p) \/ RespondNotified(p)
    \/ Finish(p) \/ Catch(p) \/ CatchNotified(p)
    \/ StreamFinish(p) \/ StreamCatch(p)

SpecLive == Init /\ [][Next]_vars /\ WF_vars(\E p \in Procs : BoundedStep(p))

(***************************************************************************)
(* cleanCodeContent alone: a create executor that holds the reply of the   *)
(* model, for every reply of FencedOutputs                                 *)
(***************************************************************************)
InitClean ==
    /\ agentState = [isActive |-> TRUE, currentTask |-> Some(P_create)]
    /\ langchainAgent = Null
    /\ agentExecutor = {}
    /\ lcInitializing = {}
    /\ startPc = "idle"
    /\ fs = InitialFs
    /\ activeEditor = Null
    /\ workspaceFolders = <<WsRoot>>
    /\ InitExt
    /\ \E raw \in FencedOutputs :
           proc = [p \in 1..1 |->
                     [IdleProc EXCEPT !.pc = "cleanCodeContent",
                                      !.req = [id |-> "r2", prompt |-> P_create],
                                      !.kind = "create",
                                      !.reply = Some(Ok(raw))]]

NextClean == \E p \in Procs : CleanCodeContent(p)

SpecClean == InitClean /\ [][NextClean]_vars

(***************************************************************************)
(* The classifier alone: one call that awaits the reply to the             *)
(* classification prompt, for every prompt of ScanPrompts                  *)
(***************************************************************************)
InitScan ==
    /\ langchainAgent = Null
    /\ agentExecutor = {}
    /\ lcInitializing = {}
    /\ startPc = "idle"
    /\ fs = InitialFs
    /\ activeEditor = Null
    /\ workspaceFolders = <<WsRoot>>
    /\ InitExt
    /\ \E r \in ScanRequests :
           /\ agentState = [isActive |-> TRUE, currentTask |-> Some(r.prompt)]
           /\ proc = [p \in 1..1 |->
                        [IdleProc EXCEPT !.pc = "classify generateResponse", !.req = r]]

\* determineAction of the agent
NextScan == \E p \in Procs : Classify(p)

SpecScan == InitScan /\ [][NextScan]_vars

\* determineAction of src/agent.ts
NextScanAgentTs == \E p \in Procs : ClassifyAgentTs(p)

SpecScanAgentTs == InitScan /\ [][NextScanAgentTs]_vars

(***************************************************************************)
(* The extension: the startAgent command and the configuration panel       *)
(***************************************************************************)
MaxPosted == 1

\* the configuration startAgent stores when the stored one is incomplete
DefaultConfiguration == [llmProvider |-> "openai", apiKey |-> <<>>, model |-> "gpt-4"]

\* startAgent of the extension: an active agent only shows 'Agent is already
\* running'; else the configuration is read, replaced by the defaults when it is
\* incomplete, the service is made from it and start() of the agent begins
CommandStartAgent ==
    /\ startPc = "idle"
    /\ IF agentState.isActive
       THEN /\ startPc' = "already showMessage"
            /\ UNCHANGED ext
       ELSE LET ctx == IF isConfigurationComplete(getAgentConfig(context))
                       THEN context
                       ELSE updateAgentConfig(DefaultConfiguration, context)
                llmServiceResult == createLLMService(getAgentConfig(ctx))
            IN  /\ globalState' = ctx.globalState
                /\ secrets' = ctx.secrets
                /\ IF llmServiceResult.success
                   THEN /\ llmService' = Some(llmServiceResult.data)
                        /\ startPc' = "getWorkspaceFiles"
                   ELSE /\ llmService' = llmService
                        /\ startPc' = "catch showMessage"
                /\ UNCHANGED webview
    /\ UNCHANGED <<agentState, langchainAgent, agentExecutor, lcInitializing, fs,
                   activeEditor, workspaceFolders, proc, lcPc, rest>>

\* a configuration as a message carries it: an undefined field is left out
AsMessage(config) ==
    IF config.apiEndpoint = Null
    THEN [llmProvider |-> config.llmProvider, model |-> config.model,
          apiKey |-> config.apiKey]
    ELSE [llmProvider |-> config.llmProvider, model |-> config.model,
          apiKey |-> config.apiKey, apiEndpoint |-> config.apiEndpoint[1]]

\* sendCurrentConfig of AviorWebviewProvider: the provider, the model and the
\* masked key
ProviderConfigData(currentConfig) ==
    [command |-> "configData",
     config |-> [llmProvider |-> currentConfig.llmProvider,
                 model |-> currentConfig.model,
                 apiKey |-> IF currentConfig.apiKey # <<>> THEN Mask ELSE <<>>]]

\* sendCurrentConfig of WebviewManager: the configuration as it is read
ManagerConfigData(config) == [command |-> "configData", config |-> AsMessage(config)]

\* the webview asks for the configuration ('getConfig') and the host answers
SendCurrentConfig ==
    /\ Len(webview.posted) < MaxPosted
    /\ webview' =
           [webview EXCEPT !.posted =
               Append(@, IF webview.host = "AviorWebviewProvider"
                         THEN ProviderConfigData(getAgentConfig(context))
                         ELSE ManagerConfigData(getAgentConfig(context)))]
    /\ UNCHANGED <<agentState, langchainAgent, agentExecutor, lcInitializing, startPc,
                   fs, activeEditor, workspaceFolders, proc, globalState, secrets,
                   llmService, lcPc, rest>>

\* messageListener of App: configData replaces the configuration, configSaved
\* has no case
AppMessage ==
    /\ webview.posted # <<>>
    /\ LET message == Head(webview.posted)
       IN  webview' =
               IF message.command = "configData"
               THEN [webview EXCEPT !.posted = Tail(@), !.config = message.config,
                                    !.received = TRUE]
               ELSE [webview EXCEPT !.posted = Tail(@)]
    /\ UNCHANGED <<agentState, langchainAgent, agentExecutor, lcInitializing, startPc,
                   fs, activeEditor, workspaceFolders, proc, globalState, secrets,
                   llmService, lcPc, rest>>

\* onConfigClick, onCancel: the panel opens with the configuration of App as its
\* form data, or closes
ToggleConfigPanel ==
    /\ webview' =
           IF webview.formData = Null
           THEN [webview EXCEPT !.formData = Some(webview.config),
                                !.edited = IF webview.received THEN {} ELSE {"stale"}]
           ELSE [webview EXCEPT !.formData = Null, !.edited = {}]
    /\ UNCHANGED <<agentState, langchainAgent, agentExecutor, lcInitializing, startPc,
                   fs, activeEditor, workspaceFolders, proc, globalState, secrets,
                   llmService, lcPc, rest>>

\* the values the user enters in a field of the form
FormValues(field) ==
    IF field = "apiKey" THEN {K_openai} ELSE {"anthropic"}

\* handleInputChange of ConfigPanel: the user changes a field of the form
HandleInputChange ==
    /\ webview.formData # Null
    /\ \E field \in {"apiKey", "llmProvider"} :
           \E value \in FormValues(field) :
               /\ webview.formData[1][field] # value
               /\ webview' =
                      [webview EXCEPT !.formData = Some([@[1] EXCEPT ![field] = value]),
                                      !.edited = @ \cup {field}]
    /\ UNCHANGED <<agentState, langchainAgent, agentExecutor, lcInitializing, startPc,
                   fs, activeEditor, workspaceFolders, proc, globalState, secrets,
                   llmService, lcPc, rest>>

\* handleSubmit of ConfigPanel and handleConfigSave of App: the form data become
\* the configuration of App, the panel closes and 'updateConfig' is sent
HandleSubmit ==
    /\ webview.formData # Null
    /\ webview.sent = Null
    /\ webview' = [webview EXCEPT !.config = webview.formData[1],
                                  !.formData = Null, !.edited = {},
                                  !.sent = webview.formData,
                                  !.sentEdited = webview.edited]
    /\ UNCHANGED <<agentState, langchainAgent, agentExecutor, lcInitializing, startPc,
                   fs, activeEditor, workspaceFolders, proc, globalState, secrets,
                   llmService, lcPc, rest>>

\* handleConfigUpdate of AviorWebviewProvider, saveConfiguration of
\* WebviewManager: 'updateConfig' arrives and the configuration it carries is
\* stored; WebviewManager answers with 'configSaved'
HandleConfigUpdate ==
    /\ webview.sent # Null
    /\ webview.host = "WebviewManager" => Len(webview.posted) < MaxPosted
    /\ LET ctx == updateAgentConfig(webview.sent[1], context)
       IN  /\ globalState' = ctx.globalState
           /\ secrets' = ctx.secrets
    /\ webview' =
           [webview EXCEPT !.sent = Null, !.sentEdited = {},
                           !.posted = IF webview.host = "WebviewManager"
                                      THEN Append(@, [command |-> "configSaved"])
                                      ELSE @]
    /\ UNCHANGED <<agentState, langchainAgent, agentExecutor, lcInitializing, startPc,
                   fs, activeEditor, workspaceFolders, proc, llmService, lcPc, rest>>

\* the stored configurations of the model
StoredGlobalStates ==
    [provider : {Null} \cup {Some(x) : x \in Providers},
     model : {Null} \cup {Some(x) : x \in Models},
     apiEndpoint : {Null, Some(Ollama)}]
StoredSecrets == {Null} \cup {Some(k) : k \in ApiKeys}

\* an idle agent in a workspace with a folder, any stored configuration, the
\* webview loaded in either host
InitConfig ==
    /\ agentState = [isActive |-> FALSE, currentTask |-> Null]
    /\ langchainAgent = Null
    /\ agentExecutor = {}
    /\ lcInitializing = {}
    /\ startPc = "idle"
    /\ fs = InitialFs
    /\ activeEditor = Null
    /\ workspaceFolders = <<WsRoot>>
    /\ proc = [p \in 1..1 |-> IdleProc]
    /\ globalState \in StoredGlobalStates
    /\ secrets \in StoredSecrets
    /\ llmService = Null
    /\ \E host \in WebviewHosts : webview = InitialWebview(host)
    /\ lcPc = [i \in 1..MaxLangChain |-> ""]
    /\ InitRest

\* the startAgent command and the session it starts
NextConfig ==
    \/ CommandStartAgent
    \/ StartAgentListed
    \/ StartAgentNotified
    \/ StartAgentFailureNotified
    \/ StopAgent

SpecConfig == InitConfig /\ [][NextConfig]_vars

\* the configuration panel: the agent idle, a fresh installation or the local
\* setup of the guide, with or without a stored key
InitPanel ==
    /\ InitConfig
    /\ globalState \in {[provider |-> Null, model |-> Null, apiEndpoint |-> Null],
                        [provider |-> Some("openai-compatible"),
                         model |-> Some("llama2"), apiEndpoint |-> Some(Ollama)]}
    /\ secrets \in {Null, Some(K_local)}

NextPanel ==
    \/ SendCurrentConfig
    \/ AppMessage
    \/ ToggleConfigPanel
    \/ HandleInputChange
    \/ HandleSubmit
    \/ HandleConfigUpdate

SpecPanel == InitPanel /\ [][NextPanel]_vars


(***************************************************************************)
(* createLLMService alone: applied to every stored configuration           *)
(***************************************************************************)
CreateLLMService ==
    /\ llmService = Null
    /\ LET llmServiceResult == createLLMService(getAgentConfig(context))
       IN  /\ llmServiceResult.success
           /\ llmService' = Some(llmServiceResult.data)
    /\ UNCHANGED <<agentState, langchainAgent, agentExecutor, lcInitializing, startPc,
                   fs, activeEditor, workspaceFolders, proc, globalState, secrets,
                   webview, lcPc, rest>>

SpecService == InitConfig /\ [][CreateLLMService]_vars

(***************************************************************************)
(* determineFileDetails alone: a create executor that holds the cleaned    *)
(* content, for every prompt of DetailPrompts and content of DetailContents *)
(***************************************************************************)
P_css == <<"a", " ", "c", "s", "s", " ", "p", "a", "g", "e">>
DetailPrompts == {P_create, P_css, P_hello}

\* the lines of a generated content: a comment that names a file, declarations
\* with an identifier, a style rule, a plain line
DetailLines ==
    {<<"/", "/", " ", "a", ".", "t", "s">>,
     <<"c", "l", "a", "s", "s", " ", "F", "o", "o">>,
     <<"f", "u", "n", "c", "t", "i", "o", "n", " ", "B", "a", "r">>,
     <<"m", "a", "r", "g", "i", "n", ":", "0">>,
     <<"x">>}
DetailContents ==
    DetailLines \cup {a \o <<NL>> \o b : a \in DetailLines, b \in DetailLines}

InitDetails ==
    /\ agentState = [isActive |-> TRUE, currentTask |-> Null]
    /\ langchainAgent = Null
    /\ agentExecutor = {}
    /\ lcInitializing = {}
    /\ startPc = "idle"
    /\ fs = InitialFs
    /\ activeEditor = Null
    /\ workspaceFolders = <<WsRoot>>
    /\ InitExt
    /\ \E prompt \in DetailPrompts, cleanedContent \in DetailContents :
           proc = [p \in 1..1 |->
                     [IdleProc EXCEPT !.pc = "determineFileDetails",
                                      !.req = [id |-> "r2", prompt |-> prompt],
                                      !.kind = "create",
                                      !.content = cleanedContent]]

\* the file is named: fullPath of executeCreateAction
DetermineFileDetails(p) ==
    /\ proc[p].pc = "determineFileDetails"
    /\ proc' = [proc EXCEPT
           ![p].pc = "create writeFile",
           ![p].target =
               Some(FullPath(workspaceFolders[1],
                             determineFileDetails(proc[p].req.prompt, proc[p].content)))]
    /\ UNCHANGED shared

NextDetails == \E p \in Procs : DetermineFileDetails(p)

SpecDetails == InitDetails /\ [][NextDetails]_vars

(***************************************************************************)
(* searchInFileContent alone: for every content of SearchContents and      *)
(* pattern of SearchPatterns. A pattern of the model is a text without     *)
(* special characters, so the regular expression matches the text itself.  *)
(***************************************************************************)
\* content.split('\n')
RECURSIVE split(_)
split(content) ==
    LET i == IndexFrom(content, <<NL>>, 0)
    IN  IF i = -1 THEN <<content>>
        ELSE <<Sub(content, 0, i)>> \o split(Sub(content, i + 1, Len(content)))

\* the pattern, compiled with the flag i, stands at offset i of the line
MatchesAt(line, pattern, i) == At(toLowerCase(line), i, toLowerCase(pattern))

\* regex.test(line) of a regular expression with the flag g: the search starts
\* at lastIndex; a match leaves lastIndex behind it, a failure sets it to 0
test(line, pattern, lastIndex) ==
    LET starts == {i \in lastIndex..Len(line) : MatchesAt(line, pattern, i)}
    IN  IF starts = {} THEN [found |-> FALSE, lastIndex |-> 0]
        ELSE [found |-> TRUE, lastIndex |-> MinOr(starts) + Len(pattern)]

\* the line numbers getContextLines gives for the line at index targetLine: the
\* lines up to contextSize before and after it (their text is left out)
getContextLines(lines, targetLine, contextSize) ==
    LET start == IF targetLine - contextSize > 0 THEN targetLine - contextSize ELSE 0
        end == IF Len(lines) < targetLine + contextSize + 1 THEN Len(lines)
               ELSE targetLine + contextSize + 1
    IN  [k \in 1..(end - start) |-> start + k]

\* lines.forEach from the line at index on, with the one regular expression
\* object the loop shares
RECURSIVE SearchLinesFrom(_, _, _, _)
SearchLinesFrom(lines, pattern, index, lastIndex) ==
    IF index >= Len(lines) THEN <<>>
    ELSE LET r == test(lines[index + 1], pattern, lastIndex)
             tail == SearchLinesFrom(lines, pattern, index + 1, r.lastIndex)
         IN  IF r.found
             THEN <<[line |-> index + 1, content |-> trim(lines[index + 1]),
                     context |-> getContextLines(lines, index, 2)]>> \o tail
             ELSE tail

\* searchInFileContent
searchInFileContent(content, pattern) == SearchLinesFrom(split(content), pattern, 0, 0)

MaxSearchLines == 3
SearchLines ==
    {<<"a", "b">>, <<" ", "a", "b">>, <<"x", "A", "B", "a", "b">>, <<"x">>, <<>>}
RECURSIVE SearchLinesUpTo(_)
SearchLinesUpTo(n) ==
    IF n = 1 THEN SearchLines
    ELSE SearchLinesUpTo(n - 1)
         \cup {a \o <<NL>> \o b : a \in SearchLinesUpTo(n - 1), b \in SearchLines}
SearchContents == SearchLinesUpTo(MaxSearchLines)
SearchPatterns == {<<"a", "b">>, <<"B">>}

InitSearch ==
    /\ agentState = [isActive |-> FALSE, currentTask |-> Null]
    /\ langchainAgent = Null
    /\ agentExecutor = {}
    /\ lcInitializing = {}
    /\ startPc = "idle"
    /\ fs = InitialFs
    /\ activeEditor = Null
    /\ workspaceFolders = <<WsRoot>>
    /\ proc = [p \in 1..1 |-> IdleProc]
    /\ globalState = [provider |-> Null, model |-> Null, apiEndpoint |-> Null]
    /\ secrets = Null
    /\ llmService = Null
    /\ webview = InitialWebview("AviorWebviewProvider")
    /\ lcPc = [i \in 1..MaxLangChain |-> ""]
    /\ \E content \in SearchContents, pattern \in SearchPatterns :
           search = [content |-> content, pattern |-> pattern, matches |-> Null]
    /\ pluginRegistry = [plugins |-> <<>>, enabledPlugins |-> {}]
    /\ pluginCalls = [c \in 1..MaxPluginCalls |-> NoPluginCall]

\* searchInWorkspaceFiles: the content of a file is searched
SearchInFileContent ==
    /\ search.matches = Null
    /\ search' = [search EXCEPT
                     !.matches = Some(searchInFileContent(search.content, search.pattern))]
    /\ UNCHANGED <<agentState, langchainAgent, agentExecutor, lcInitializing, startPc,
                   fs, activeEditor, workspaceFolders, proc, globalState, secrets,
                   llmService, webview, lcPc, pluginRegistry, pluginCalls>>

SpecSearch == InitSearch /\ [][SearchInFileContent]_vars

(***************************************************************************)
(* The chat router of WebviewManager alone: an active agent and one chat   *)
(* message, for every prompt of ScanPrompts                                *)
(***************************************************************************)
InitRoute ==
    /\ agentState = [isActive |-> TRUE, currentTask |-> Null]
    /\ langchainAgent = Null
    /\ agentExecutor = {}
    /\ lcInitializing = {}
    /\ startPc = "idle"
    /\ fs = InitialFs
    /\ activeEditor = Null
    /\ workspaceFolders = <<WsRoot>>
    /\ InitExt
    /\ proc = [p \in 1..1 |-> IdleProc]

NextRoute == \E p \in Procs : WebviewManagerChatScan(p)

SpecRoute == InitRoute /\ [][NextRoute]_vars

(***************************************************************************)
(* The same request made again: NumProcs calls with the prompt P_create,   *)
(* each made when the one before it has settled                            *)
(***************************************************************************)
RepeatRequests ==
    {[id |-> "r1", prompt |-> P_create], [id |-> "r2", prompt |-> P_create]}

InitRepeat ==
    /\ agentState = [isActive |-> TRUE, currentTask |-> Null]
    /\ langchainAgent = Null
    /\ agentExecutor = {}
    /\ lcInitializing = {}
    /\ startPc = "idle"
    /\ fs = InitialFs
    /\ activeEditor = Null
    /\ workspaceFolders = <<WsRoot>>
    /\ InitExt
    /\ proc = [p \in 1..NumProcs |-> IdleProc]

\* a caller that holds the agent calls processRequest when its earlier calls
\* have settled
ProcessRequestAgain(p) ==
    /\ proc[p].pc = "idle"
    /\ \A q \in Procs : q < p => proc[q].pc \in {"resolved", "rejected"}
    /\ \E r \in RepeatRequests : BeginRequest(p, r)

NextRepeat ==
    \/ \E p \in Procs : ProcessRequestAgain(p)
    \/ \E p \in Procs : Classify(p)
    \/ \E p \in Procs : Dispatch(p)
    \/ \E p \in Procs : SearchProgress(p)
    \/ \E p \in Procs : SearchSearched(p)
    \/ \E p \in Procs : SearchNotified(p)
    \/ \E p \in Procs : SearchOpened(p)
    \/ \E p \in Procs : FilesListed(p)
    \/ \E p \in Procs : FilePicked(p)
    \/ \E p \in Procs : EditRead(p)
    \/ \E p \in Procs : EditGenerated(p)
    \/ \E p \in Procs : EditWritten(p)
    \/ \E p \in Procs : EditOpened(p)
    \/ \E p \in Procs : EditNotified(p)
    \/ \E p \in Procs : EditFailureNotified(p)
    \/ \E p \in Procs : CreateGenerated(p)
    \/ \E p \in Procs : CreateWritten(p)
    \/ \E p \in Procs : CreateOpened(p)
    \/ \E p \in Procs : CreateNotified(p)
    \/ \E p \in Procs : CreateFailureNotified(p)
    \/ \E p \in Procs : AnalyzeRead(p)
    \/ \E p \in Procs : AnalyzeAnalyzed(p)
    \/ \E p \in Procs : AnalyzeNotified(p)
    \/ \E p \in Procs : RespondGenerated(p)
    \/ \E p \in Procs : RespondNotified(p)
    \/ \E p \in Procs : Finish(p)
    \/ \E p \in Procs : Catch(p)
    \/ \E p \in Procs : CatchNotified(p)

SpecRepeat == InitRepeat /\ [][NextRepeat]_vars

(***************************************************************************)
(* The plugin manager: registerPlugin, enablePlugin, disablePlugin          *)
(***************************************************************************)
\* the plugins that callers register: an id, and a handler whose activate()
\* and deactivate() resolve or throw
PluginIds == {"git-assistant", "jira-integration"}
PluginHandlers == {"resolves", "throws"}
Plugins == [id : PluginIds, handler : PluginHandlers]
MaxPlugins == 3

\* plugins.findIndex(p => p.id === id): 0 stands for the -1 of the code
findIndex(plugins, id) ==
    IF \E i \in 1..Len(plugins) : plugins[i].id = id
    THEN CHOOSE i \in 1..Len(plugins) :
             /\ plugins[i].id = id
             /\ \A j \in 1..(i - 1) : plugins[j].id # id
    ELSE 0

\* a registration that never looks for the id
registerNewPluginAppends(registry, plugin) ==
    [registry EXCEPT !.plugins = Append(registry.plugins, plugin)]

\* registerNewPlugin: the registry after the call
registerNewPlugin(registry, plugin) ==
    LET existingIndex == findIndex(registry.plugins, plugin.id)
    IN  IF existingIndex >= 1
        THEN [registry EXCEPT !.plugins = [registry.plugins EXCEPT ![existingIndex] = plugin]]
        ELSE [registry EXCEPT !.plugins = Append(registry.plugins, plugin)]

RegisteredIds(registry) == {registry.plugins[i].id : i \in 1..Len(registry.plugins)}

PluginUnchanged ==
    UNCHANGED <<agentState, langchainAgent, agentExecutor, lcInitializing, startPc,
                fs, activeEditor, workspaceFolders, proc, globalState, secrets,
                llmService, webview, lcPc, search>>

\* registerPlugin(plugin): synchronous
RegisterPlugin ==
    /\ Len(pluginRegistry.plugins) < MaxPlugins
    /\ \E plugin \in Plugins :
           pluginRegistry' = registerNewPlugin(pluginRegistry, plugin)
    /\ UNCHANGED pluginCalls
    /\ PluginUnchanged

\* enablePluginById / disablePluginById up to the await: the plugin is looked
\* up; an unknown id returns false, a known one has its handler called
BeginPluginCall(op, pluginId) ==
    LET index == findIndex(pluginRegistry.plugins, pluginId)
    IN  IF index = 0
        THEN [op |-> op, id |-> pluginId, handler |-> "",
              pc |-> "returned", result |-> FALSE]
        ELSE [op |-> op, id |-> pluginId,
              handler |-> pluginRegistry.plugins[index].handler,
              pc |-> "await", result |-> FALSE]

\* enablePlugin(pluginId) is called
EnablePlugin(c) ==
    /\ pluginCalls[c].pc \in {"idle", "returned"}
    /\ \E pluginId \in PluginIds :
           pluginCalls' = [pluginCalls EXCEPT ![c] = BeginPluginCall("enable", pluginId)]
    /\ UNCHANGED pluginRegistry
    /\ PluginUnchanged

\* disablePlugin(pluginId) is called
DisablePlugin(c) ==
    /\ pluginCalls[c].pc \in {"idle", "returned"}
    /\ \E pluginId \in PluginIds :
           pluginCalls' = [pluginCalls EXCEPT ![c] = BeginPluginCall("disable", pluginId)]
    /\ UNCHANGED pluginRegistry
    /\ PluginUnchanged

\* the rest of enablePluginById after `await plugin.handler.activate(_context)`
PluginActivated(c) ==
    /\ pluginCalls[c].op = "enable"
    /\ pluginCalls[c].pc = "await"
    /\ IF pluginCalls[c].handler = "throws"
       THEN /\ pluginCalls' = [pluginCalls EXCEPT ![c].pc = "returned", ![c].result = FALSE]
            /\ UNCHANGED pluginRegistry
       ELSE /\ pluginRegistry' =
                   [pluginRegistry EXCEPT
                       !.enabledPlugins = pluginRegistry.enabledPlugins \cup {pluginCalls[c].id}]
            /\ pluginCalls' = [pluginCalls EXCEPT ![c].pc = "returned", ![c].result = TRUE]
    /\ PluginUnchanged

\* the rest of disablePluginById after `await plugin.handler.deactivate()`
PluginDeactivated(c) ==
    /\ pluginCalls[c].op = "disable"
    /\ pluginCalls[c].pc = "await"
    /\ IF pluginCalls[c].handler = "throws"
       THEN /\ pluginCalls' = [pluginCalls EXCEPT ![c].pc = "returned", ![c].result = FALSE]
            /\ UNCHANGED pluginRegistry
       ELSE /\ pluginRegistry' =
                   [pluginRegistry EXCEPT
                       !.enabledPlugins = pluginRegistry.enabledPlugins \ {pluginCalls[c].id}]
            /\ pluginCalls' = [pluginCalls EXCEPT ![c].pc = "returned", ![c].result = TRUE]
    /\ PluginUnchanged

InitPlugins ==
    /\ agentState = [isActive |-> FALSE, currentTask |-> Null]
    /\ langchainAgent = Null
    /\ agentExecutor = {}
    /\ lcInitializing = {}
    /\ startPc = "idle"
    /\ fs = InitialFs
    /\ activeEditor = Null
    /\ workspaceFolders = <<WsRoot>>
    /\ proc = [p \in 1..1 |-> IdleProc]
    /\ InitExt

NextPlugins ==
    \/ RegisterPlugin
    \/ \E c \in 1..MaxPluginCalls : EnablePlugin(c)
    \/ \E c \in 1..MaxPluginCalls : DisablePlugin(c)
    \/ \E c \in 1..MaxPluginCalls : PluginActivated(c)
    \/ \E c \in 1..MaxPluginCalls : PluginDeactivated(c)

SpecPlugins == InitPlugins /\ [][NextPlugins]_vars

(***************************************************************************)
(* Properties                                                              *)
(***************************************************************************)
\* the call has started and its promise is not settled
InFlight(p) == proc[p].req # NoRequest /\ proc[p].pc \notin {"resolved", "rejected"}

\* the call is a processRequest call that went through classification
Classified(p) == proc[p].kind # ""

\* the call has made the capability call name, with the outcome ok
Made(p, name, ok) == \E i \in 1..Len(proc[p].calls) : proc[p].calls[i] = <<name, ok>>

\* the call has made the capability call name
Attempted(p, name) == Made(p, name, TRUE) \/ Made(p, name, FALSE)

\* a Response as the contract describes it
WellFormed(resp, request) ==
    /\ resp.requestId = request.id
    /\ resp.action.type \in Kinds

\* C1: processRequest and processRequestStream never return a rejected promise:
\* whatever capability call fails, every call that settles resolves to a
\* well-formed Response.
C1_NeverRejects ==
    \A p \in Procs :
        /\ proc[p].pc # "rejected"
        /\ proc[p].pc = "resolved" =>
               proc[p].resp # Null /\ WellFormed(proc[p].resp[1], proc[p].req)

\* the step in which the processRequest call p resolves
Resolves(p) ==
    /\ proc[p].pc \in {"langchain invoke", "executor returned", "catch showMessage"}
    /\ proc'[p].pc = "resolved"

\* C2 as stated: at the step in which a processRequest call resolves,
\* currentTask is null, on the success path, the LangChain path and the error
\* path, whatever other calls started or finished meanwhile.
C2_TaskNullAtResolve ==
    [][\A p \in Procs : Resolves(p) => agentState'.currentTask = Null]_vars

\* C2 amended: at the step in which a processRequest call resolves on the
\* success path or the LangChain path, currentTask is null under every
\* interleaving; on the error path it is null, or it is the prompt of another call
\* that is in flight (one started while the error message was being shown).
C2_TaskAtResolve ==
    [][\A p \in Procs :
          Resolves(p) =>
              \/ agentState'.currentTask = Null
              \/ /\ proc[p].pc = "catch showMessage"
                 /\ \E q \in Procs \ {p} :
                        /\ InFlight(q)
                        /\ agentState'.currentTask = Some(proc[q].req.prompt)]_vars

\* a call has resolved on the error path while another call, started since, is in
\* flight and its prompt is the current task
C2_Witness ==
    \E p \in Procs, q \in Procs :
        /\ p # q
        /\ proc[p].pc = "resolved"
        /\ proc[p].resp[1].reasoning = "Failed to process request"
        /\ Classified(p)
        /\ InFlight(q)
        /\ agentState.currentTask = Some(proc[q].req.prompt)

\* C3: on every path through processRequest the Response carries the id of the
\* request the call was made with, also when calls overlap.
C3_RequestIdEchoed ==
    \A p \in Procs :
        proc[p].resp # Null => proc[p].resp[1].requestId = proc[p].req.id

\* the second call has resolved while the first, made before it, is in flight
C3_Witness ==
    /\ 2 \in Procs
    /\ proc[2].pc = "resolved"
    /\ proc[2].resp[1].requestId = proc[2].req.id
    /\ InFlight(1)
    /\ proc[1].req.id # proc[2].req.id

\* the executor of the call returned an action (it did not throw)
ExecutorReturned(p) ==
    /\ proc[p].pc = "resolved"
    /\ Classified(p)
    /\ proc[p].resp[1].reasoning = "Processed request: "

\* C4 as stated: the kind of the action in the Response equals the kind the
\* classifier returned, on every outcome of the executor (here: whenever the
\* classifier returned one of the five kinds and the executor returned).
C4_KindIsClassifiedKind ==
    \A p \in Procs :
        ExecutorReturned(p) /\ proc[p].kind \in Kinds =>
            proc[p].resp[1].action.type = proc[p].kind

\* what a respond action says when it stands for another kind
Reports ==
    {"No file selected for editing", "No file selected for analysis",
     "No valid code changes generated", "File Update Failed", "File Creation Failed",
     "Error: "}

\* C4 amended: for a request handled by classification and dispatch, the kind of
\* the action in the Response is the kind the classifier returned, or it is
\* respond; it is respond in place of the classifier's kind only when that kind is
\* none of the five, or the action reports a dismissed picker, empty model
\* output, a failed update or creation, or an error.
C4_KindIsClassifiedOrRespond ==
    \A p \in Procs :
        proc[p].pc = "resolved" /\ Classified(p) =>
            LET action == proc[p].resp[1].action
            IN  \/ action.type = proc[p].kind
                \/ /\ action.type = "respond"
                   /\ proc[p].kind \notin Kinds \/ action.content.tpl \in Reports

\* a request classified as search has resolved with a search action
C4_Witness ==
    \E p \in Procs :
        /\ ExecutorReturned(p)
        /\ proc[p].kind = "search"
        /\ proc[p].resp[1].action.type = "search"

\* C5: determineAction returns one of the five kinds for every reply of the
\* model and for a failed call.
C5_ClassifierKindValid ==
    \A p \in Procs : proc[p].pc = "classified" => proc[p].kind \in Kinds

\* the reply is a JSON object whose type is one of the five kinds
ValidClassification(llm) ==
    /\ llm.ok
    /\ JsonParse(llm.text).t = "object"
    /\ LET type == JsonGet(JsonParse(llm.text), <<"t", "y", "p", "e">>)
       IN  type.t = "string" /\ \E k \in Kinds : KindText[k] = type.v

\* C6: when the reply is no JSON object with a type among the five kinds, or
\* the call failed, determineAction returns what the keyword scan of the prompt
\* returns.
C6_FallbackIsKeywordScan ==
    \A p \in Procs :
        proc[p].pc = "classified" /\ ~ValidClassification(proc[p].reply[1]) =>
            proc[p].kind = analyzeRequestKeywords(proc[p].req.prompt)

\* the last capability calls of the call are these, in this order
EndsWith(p, tail) ==
    /\ Len(proc[p].calls) >= Len(tail)
    /\ SubSeq(proc[p].calls, Len(proc[p].calls) - Len(tail) + 1, Len(proc[p].calls)) = tail

\* C7: when classification or execution throws inside processRequest,
\* currentTask is cleared, then the error is shown through the UI, then the
\* Response {respond, "Error: " + error} is returned.
C7_ThrowBecomesErrorResponse ==
    \A p \in Procs :
        Made(p, "clearTask", TRUE) /\ Classified(p) /\ ~InFlight(p)
        /\ ~ExecutorReturned(p) =>
            /\ proc[p].pc = "resolved"
            /\ EndsWith(p, <<<<"clearTask", TRUE>>, <<"showMessage", TRUE>>>>)
            /\ proc[p].resp[1].action =
                   Action("respond", Null, Content("Error: ", proc[p].err, <<>>), "")

\* C8: no executor throws to executeAction.
C8_ExecutorsNeverThrow ==
    \A p \in Procs : proc[p].pc # "executor threw"

\* C9: when the edit or the create executor returns a respond action, the files
\* of the workspace are what they were before the call.
C9_FailureLeavesFiles ==
    \A p \in Procs :
        /\ proc[p].pc = "executor returned"
        /\ proc[p].kind \in {"edit", "create"}
        /\ proc[p].result.type = "respond"
        => fs = InitialFs

\* the text is empty or holds only white space
Blank(text) == \A i \in 1..Len(text) : text[i] \in SpaceChar

\* the edit executor has the cleaned reply of the model
EditCleaned(p) == proc[p].kind = "edit" /\ Made(p, "generateResponse", TRUE)

\* C10: when the cleaned model output of the edit executor is empty or white
\* space only, the executor returns a respond action, and neither writes the
\* file nor opens it.
C10_BlankEditWritesNothing ==
    \A p \in Procs :
        EditCleaned(p) /\ Blank(proc[p].content) =>
            /\ proc[p].pc \in {"executor returned", "resolved"}
            /\ proc[p].result.type = "respond"
            /\ ~Attempted(p, "writeFile")
            /\ ~Attempted(p, "openFile")

\* an edit whose cleaned output was white space only has resolved
C10_Witness ==
    \E p \in Procs :
        /\ EditCleaned(p)
        /\ Blank(proc[p].content)
        /\ proc[p].content # <<>>
        /\ proc[p].pc = "resolved"
        /\ proc[p].resp[1].action.content.tpl = "No valid code changes generated"

\* determineAction took the catch branch: the call failed, or the reply is not
\* JSON (a reply of null makes reading parsed.type throw)
KeywordFallback(p) ==
    /\ proc[p].pc = "classified"
    /\ \/ ~proc[p].reply[1].ok
       \/ JsonParse(proc[p].reply[1].text).t \in {"malformed", "null"}

\* the prompt holds a creation keyword or matches a creation pattern
CreateIndicator(prompt) ==
    hasCreationKeyword(toLowerCase(prompt)) \/ hasCreationPattern(toLowerCase(prompt))

\* the prompt holds one of the words
HasKeyword(prompt, W) == \E w \in W : includes(toLowerCase(prompt), w)

\* C11: in the keyword fallback a prompt that holds a Create indicator and a
\* Search keyword is classified as create, never as search.
C11_CreateBeforeSearch ==
    \A p \in Procs :
        /\ KeywordFallback(p)
        /\ CreateIndicator(proc[p].req.prompt)
        /\ HasKeyword(proc[p].req.prompt, searchKeywords)
        => proc[p].kind = "create"

\* the kind the order Edit, Search, Analyze, else respond gives
FirstMatch(prompt) ==
    IF HasKeyword(prompt, editKeywords) THEN "edit"
    ELSE IF HasKeyword(prompt, searchKeywords) THEN "search"
    ELSE IF HasKeyword(prompt, analyzeKeywords) THEN "analyze"
    ELSE "respond"

\* C12: for a prompt with no Create indicator the keyword fallback returns the
\* first match in the order Edit keywords, Search keywords, Analyze keywords,
\* else respond.
C12_OrderWithoutCreate ==
    \A p \in Procs :
        KeywordFallback(p) /\ ~CreateIndicator(proc[p].req.prompt) =>
            proc[p].kind = FirstMatch(proc[p].req.prompt)

\* the fallback classified a prompt with a Search and an Analyze keyword and no
\* Create indicator and no Edit keyword as search
C12_Witness ==
    \E p \in Procs :
        /\ KeywordFallback(p)
        /\ ~CreateIndicator(proc[p].req.prompt)
        /\ ~HasKeyword(proc[p].req.prompt, editKeywords)
        /\ HasKeyword(proc[p].req.prompt, searchKeywords)
        /\ HasKeyword(proc[p].req.prompt, analyzeKeywords)
        /\ proc[p].kind = "search"

\* the search executor of the call found no match
ZeroMatches(p) ==
    /\ proc[p].kind = "search"
    /\ Made(p, "searchInFiles", TRUE)
    /\ proc[p].target = Null

\* C13: when searchInFiles returns no match, the search executor does not throw
\* and opens no file, and once it is past its showMessage call it has reported
\* the outcome through showMessage and returned an action of kind search with
\* the content "Searched for: ...".
C13_ZeroMatchesReturnsSearch ==
    \A p \in Procs :
        ZeroMatches(p) =>
            /\ proc[p].pc # "executor threw"
            /\ ~Attempted(p, "openFile")
            /\ proc[p].pc # "search showMessage" =>
                   /\ Made(p, "showMessage", TRUE)
                   /\ proc[p].result = SearchAction(p)

\* the pieces of the texts, joined in their order
RECURSIVE Concat(_)
Concat(texts) == IF texts = <<>> THEN <<>> ELSE Head(texts) \o Concat(Tail(texts))

\* the pieces of a content: the fixed text and the error, or the text
ContentText(c) == IF c.tpl = "" THEN c.text ELSE <<c.tpl, c.err>> \o c.text

\* the call is a processRequestStream call
IsStream(p) == Attempted(p, "stream")

\* C14: the content of the Response of processRequestStream is the in-order
\* concatenation of what was handed to onToken during the call, on every outcome
\* of the stream; the call classifies nothing, runs no executor, and its action
\* is of kind respond.
C14_StreamContentIsDelivered ==
    \A p \in Procs :
        IsStream(p) /\ proc[p].pc = "resolved" =>
            /\ ContentText(proc[p].resp[1].action.content) = Concat(proc[p].delivered)
            /\ proc[p].resp[1].action.type = "respond"
            /\ proc[p].kind = ""
            /\ \A i \in 1..Len(proc[p].calls) :
                   proc[p].calls[i][1] \in {"stream", "onToken", "clearTask"}

\* C15: a call of processRequest or processRequestStream that has started is
\* eventually settled, whatever the model does: every wait on the model ends.
C15_EveryCallSettles == InFlight(1) ~> ~InFlight(1)

\* C16: the active flag follows Inactive --start--> Active --stop--> Inactive: a
\* start() whose enumeration succeeds makes the session active, a start() on an
\* active session changes nothing in the session state, a start() that fails
\* (it enters its catch block) leaves the session inactive, and stop() leaves
\* it inactive with currentTask null.
C16_ActiveFlagMachine ==
    [][/\ startPc = "getWorkspaceFiles" /\ startPc' = "started showMessage" =>
              agentState'.isActive
       /\ (startPc' = "already showMessage" \/ startPc = "already showMessage")
              /\ startPc' # startPc => agentState' = agentState
       /\ startPc \in {"getWorkspaceFiles", "started showMessage"}
              /\ startPc' = "catch showMessage" => ~agentState'.isActive
       /\ StopAgent => ~agentState'.isActive /\ agentState'.currentTask = Null]_vars

\* processRequest or processRequestStream begins for the call
Begins(p) == proc[p].req = NoRequest /\ proc'[p].req # NoRequest

\* C17: on every entry path of the extension, processRequest and
\* processRequestStream begin only while the session is active; a request
\* submitted to an inactive session changes neither currentTask nor anything
\* else of the session.
C17_NoCallWhileInactive ==
    [][\A p \in Procs : Begins(p) => agentState.isActive]_vars

\* the step in which the processRequest call p clears currentTask: on the
\* LangChain path, after the executor returned, or in the catch block
Clears(p) ==
    /\ proc[p].pc \in {"langchain invoke", "executor returned", "executor threw"}
    /\ proc'[p].pc # proc[p].pc

\* C18: when one of two overlapping processRequest calls completes, it sets
\* currentTask to null although the other call is in flight, and that call stays
\* in flight; so a call can be in flight while currentTask is null.
C18_CompletionClearsSharedTask ==
    [][\A p \in Procs, q \in Procs :
          p # q /\ Clears(p) /\ InFlight(q) =>
              /\ agentState'.currentTask = Null
              /\ proc'[q] = proc[q]]_vars

\* one call has completed and cleared currentTask while the other, which had set
\* it to its own prompt, is still in flight
C18_Witness ==
    \E p \in Procs, q \in Procs :
        /\ p # q
        /\ Made(p, "clearTask", TRUE)
        /\ Classified(p)
        /\ InFlight(q)
        /\ Classified(q)
        /\ agentState.isActive
        /\ agentState.currentTask = Null

\* the text between the line of the opening fence and the line of the closing
\* fence of a reply that is one fenced block
InnerText(raw) == Sub(raw, IndexFrom(raw, <<NL>>, 0) + 1, Len(raw) - 4)

\* C19: for a reply that is one fenced block with an optional language tag,
\* cleanCodeContent returns the text between the fences, trimmed, whatever
\* lines it holds.
C19_FencedBlockYieldsInnerText ==
    \A p \in Procs :
        proc[p].pc = "cleaned" =>
            proc[p].content = trim(InnerText(proc[p].reply[1].text))

\* the create executor of the call succeeded and the call has resolved
CreateSucceeded(p) ==
    /\ proc[p].pc = "resolved"
    /\ proc[p].resp[1].action.type = "create"

\* the step in which executeAction runs the analyze executor for the call
AnalyzeStarts(q) ==
    /\ proc[q].pc = "classified"
    /\ proc[q].kind = "analyze"
    /\ proc'[q].pc # "classified"

\* C20 as stated: an analyze executor that starts after the create executor of
\* another call succeeded with content C written to path P targets P and
\* hands C to analyzeCode.
C20_AnalyzeReadsCreatedFile ==
    [][\A p \in Procs, q \in Procs :
          p # q /\ CreateSucceeded(p) /\ AnalyzeStarts(q) =>
              /\ proc'[q].pc = "analyze analyzeCode"
              /\ proc'[q].target = proc[p].target
              /\ proc'[q].content = proc[p].content]_vars

\* C20 amended: such an analyze executor targets P and hands C to analyzeCode
\* when the file the create executor opened is still the editor in front; when
\* another editor is in front it analyzes that file, and when none is, it
\* asks the user for a file.
C20_AnalyzeReadsActiveEditor ==
    [][\A p \in Procs, q \in Procs :
          p # q /\ CreateSucceeded(p) /\ AnalyzeStarts(q) =>
              /\ activeEditor = proc[p].target =>
                     /\ proc'[q].pc = "analyze analyzeCode"
                     /\ proc'[q].target = proc[p].target
                     /\ proc'[q].content = proc[p].content
              /\ activeEditor # Null /\ activeEditor # proc[p].target =>
                     /\ proc'[q].pc = "analyze analyzeCode"
                     /\ proc'[q].target = activeEditor
                     /\ proc'[q].content = fs[activeEditor[1]]
              /\ activeEditor = Null => proc'[q].pc = "analyze getWorkspaceFiles"]_vars

\* an analyze executor awaits analyzeCode with the path and the content of the
\* file the create executor of the other call, which has resolved, wrote
C20_Witness ==
    \E p \in Procs, q \in Procs :
        /\ p # q
        /\ CreateSucceeded(p)
        /\ proc[p].content # <<>>
        /\ proc[q].pc = "analyze analyzeCode"
        /\ proc[q].target = proc[p].target
        /\ proc[q].content = proc[p].content
        /\ ~Attempted(q, "getWorkspaceFiles")

\* the setup the configuration guide gives for a local model: the provider
\* OpenAI-Compatible, the endpoint of the local server, a model, no API key
LocalModelSetup ==
    /\ globalState.provider = Some("openai-compatible")
    /\ globalState.apiEndpoint = Some(Ollama)
    /\ globalState.model = Some("llama2")
    /\ getAgentConfig(context).apiKey = <<>>

\* a step of startAgent of the extension on an agent that is not running
StartsAgent == startPc = "idle" /\ ~agentState.isActive /\ startPc' # "idle"

\* C21: with the local-model setup of the guide stored, starting the agent leaves
\* the stored provider, model and endpoint as they were
C21_StartKeepsLocalSetup ==
    [][(LocalModelSetup /\ StartsAgent) => globalState' = globalState]_vars

\* C22: for the provider openai-compatible and an empty API key createLLMService
\* returns the service over the chat model of the provider, not the mock service
C22_LocalModelGetsProviderService ==
    LET config == getAgentConfig(context)
    IN  (llmService # Null /\ config.llmProvider = "openai-compatible"
           /\ config.apiKey = <<>>)
        => (llmService[1] # MockLLMService
              /\ llmService = createLLMInstance(config))

\* C23: no message posted to the webview carries the stored API key in clear
\* text: every configData message carries the masked key or the empty string,
\* whichever class hosts the webview
C23_PostedKeyIsMasked ==
    \A i \in 1..Len(webview.posted) :
        webview.posted[i].command = "configData"
        => webview.posted[i].config.apiKey \in {Mask, <<>>}

\* the host stores the configuration of an 'updateConfig' message: the user
\* opened the panel after App had received configData and saved it without a
\* change of the key field
SavesUneditedKey ==
    /\ webview.sent # Null
    /\ webview'.sent = Null
    /\ webview.sentEdited \cap {"apiKey", "stale"} = {}

\* C26: when the webview has received configData and the user saves the panel
\* without editing the API key field, the API key in the secret storage is the
\* one it was before
C26_SaveKeepsStoredKey ==
    [][SavesUneditedKey
       => getAgentConfig(Context(globalState', secrets')).apiKey
          = getAgentConfig(context).apiKey]_vars

\* the create executor of call 1 has named the file
Named == proc[1].kind = "create" /\ proc[1].pc = "create writeFile"

\* the path of the file with these details
PathOf(details) == Some(FullPath(workspaceFolders[1], details))

\* none of the branches of the extension chain applied
NoHeuristic(prompt, content) ==
    GuessFileDetails(toLowerCase(prompt), content)
    = [fileName |-> <<"n", "e", "w", "F", "i", "l", "e">>, extension |-> <<"t", "x", "t">>]

\* C24: the file is named by a strict cascade: by the file name in a comment of
\* the content; else by the file name in the prompt; else by the extension chain
\* when one of its branches applies; and by an identifier of the content only
\* when none of these applied
C24_StrictCascade ==
    Named =>
        LET prompt == proc[1].req.prompt
            content == proc[1].content
            inContent == contentFileNameMatch(content)
            inPrompt == fileNameMatch(prompt)
            guess == GuessFileDetails(toLowerCase(prompt), content)
            ident == componentMatch(content)
        IN  proc[1].target =
                IF inContent # Null THEN PathOf(SplitFullName(inContent[1]))
                ELSE IF inPrompt # Null THEN PathOf(SplitFullName(inPrompt[1]))
                ELSE IF ~NoHeuristic(prompt, content) THEN PathOf(guess)
                ELSE IF ident # Null THEN PathOf([guess EXCEPT !.fileName = ident[1]])
                ELSE PathOf(guess)

\* C24, amended: a file name in a comment of the content decides stem and
\* extension; else a file name in the prompt decides both; else the extension
\* chain decides the extension, and the stem is the identifier of the content
\* when there is one, whether or not a branch of the chain applied, and the
\* generic stem of the chain when there is none
C24_CascadeIdentifierOverStem ==
    Named =>
        LET prompt == proc[1].req.prompt
            content == proc[1].content
            inContent == contentFileNameMatch(content)
            inPrompt == fileNameMatch(prompt)
            guess == GuessFileDetails(toLowerCase(prompt), content)
            ident == componentMatch(content)
        IN  /\ inContent # Null => proc[1].target = PathOf(SplitFullName(inContent[1]))
            /\ (inContent = Null /\ inPrompt # Null)
               => proc[1].target = PathOf(SplitFullName(inPrompt[1]))
            /\ (inContent = Null /\ inPrompt = Null /\ ident # Null)
               => proc[1].target = PathOf([fileName |-> ident[1],
                                           extension |-> guess.extension])
            /\ (inContent = Null /\ inPrompt = Null /\ ident = Null)
               => proc[1].target = PathOf(guess)

\* a file named after an identifier of the content although a branch of the
\* extension chain applied
C24_Witness ==
    /\ Named
    /\ contentFileNameMatch(proc[1].content) = Null
    /\ fileNameMatch(proc[1].req.prompt) = Null
    /\ componentMatch(proc[1].content) # Null
    /\ ~NoHeuristic(proc[1].req.prompt, proc[1].content)
    /\ proc[1].target = PathOf([fileName |-> componentMatch(proc[1].content)[1],
                                extension |-> <<"c", "s", "s">>])

\* call 1 begins as a processRequest call
BeginsProcessRequest == Begins(1) /\ proc'[1].pc # "stream open"

\* useLangChain() has not been called
NoUseLangChain == \A i \in 1..MaxLangChain : lcPc[i] = ""

\* the useLangChain() call that made the current instance has returned a failure
UseLangChainFailed == langchainAgent # Null /\ lcPc[langchainAgent[1]] = "returned failure"

\* the response of a call answered by the LangChain agent: of kind respond, its
\* content the output (or the texts that stand for an empty output and for a
\* failure of the executor), the id of the request
LangChainResponse(p) ==
    /\ proc[p].resp # Null
    /\ proc[p].resp[1].action.type = "respond"
    /\ proc[p].resp[1].action.content
           \in {Content("", "", t) : t \in LlmTexts}
               \cup {Content("No output generated", "", <<>>),
                     Content("Error: ", "LangChainError", <<>>)}
    /\ proc[p].resp[1].requestId = proc[p].req.id
    /\ proc[p].calls = <<<<"clearTask", TRUE>>>>

\* C25: a processRequest call that starts while the LangChain agent is
\* initialized is answered by it, with no classifier or executor call, by a
\* respond Response that echoes the request id, and currentTask is cleared; a
\* call that starts before useLangChain() was called, or after a useLangChain()
\* call that failed, goes to the classifier
C25_LangChainPathIffInitialized ==
    [][/\ (BeginsProcessRequest /\ LangChainReady) => proc'[1].pc = "langchain invoke"
       /\ (proc[1].pc = "langchain invoke" /\ proc'[1].pc # "langchain invoke")
          => (/\ proc'[1].pc = "resolved"
              /\ LangChainResponse(1)'
              /\ agentState'.currentTask = Null)
       /\ (BeginsProcessRequest /\ (NoUseLangChain \/ UseLangChainFailed))
          => proc'[1].pc = "classify generateResponse"]_vars

\* the numbers of the lines of the content in which the pattern matches, case
\* apart
MatchingLines(content, pattern) ==
    {i \in 1..Len(split(content)) :
        includes(toLowerCase(split(content)[i]), toLowerCase(pattern))}

\* C27: searchInFileContent reports a line if and only if the pattern matches in
\* it, case apart, whatever earlier lines matched; the number of the matches
\* reported is the number of the lines the pattern matches in
C27_MatchesAreMatchingLines ==
    search.matches # Null =>
        /\ {search.matches[1][k].line : k \in 1..Len(search.matches[1])}
           = MatchingLines(search.content, search.pattern)
        /\ Len(search.matches[1])
           = Cardinality(MatchingLines(search.content, search.pattern))

\* C28: the chat router of WebviewManager and the keyword fallback agree: a text
\* goes to the streaming path only if analyzeRequestKeywords gives respond for
\* it, and every text it maps to create, edit, search or analyze goes to
\* processRequest
C28_RouterAgreesWithFallback ==
    /\ proc[1].pc = "stream open"
       => analyzeRequestKeywords(proc[1].req.prompt) = "respond"
    /\ (proc[1].req # NoRequest
          /\ analyzeRequestKeywords(proc[1].req.prompt)
                 \in {"create", "edit", "search", "analyze"})
       => proc[1].pc = "classify generateResponse"

\* the create executor of call p writes its file
CreateWrites(p) == proc[p].pc = "create writeFile" /\ proc'[p].pc = "create openFile"

\* C29: the create executor never changes the content of a file that was in the
\* workspace before the call, so a later create request never overwrites the
\* file an earlier one wrote (the calls come one after the other: the files
\* that exist when a call writes are those that were there before it)
C29_CreateKeepsExistingFiles ==
    [][\A p \in Procs :
           CreateWrites(p) => \A f \in DOMAIN fs : fs'[f] = fs[f]]_vars

\* the registry holds pairwise distinct ids and enables registered ids only
RegistryWellFormed ==
    /\ \A i, j \in 1..Len(pluginRegistry.plugins) :
           pluginRegistry.plugins[i].id = pluginRegistry.plugins[j].id => i = j
    /\ pluginRegistry.enabledPlugins \subseteq RegisteredIds(pluginRegistry)

\* call c of enablePlugin / disablePlugin begins in this step
PluginCallBegins(c) ==
    /\ pluginCalls[c].pc \in {"idle", "returned"}
    /\ pluginCalls'[c] # pluginCalls[c]

\* call c returns in this step
PluginCallReturns(c) ==
    /\ pluginCalls'[c].pc = "returned"
    /\ pluginCalls'[c] # pluginCalls[c]

\* C30: whatever the sequence and interleaving of registerPlugin, enablePlugin
\* and disablePlugin calls, the registry holds pairwise distinct plugin ids and
\* its enabled set is a subset of the registered ids; a call of enablePlugin or
\* disablePlugin on an unknown id, or on a plugin whose handler throws, returns
\* false, and a call that returns false leaves the registry as it was.
C30_RegistryStaysWellFormed ==
    /\ []RegistryWellFormed
    /\ [][\A c \in 1..MaxPluginCalls :
              /\ (/\ PluginCallBegins(c)
                  /\ pluginCalls'[c].id \notin RegisteredIds(pluginRegistry))
                 => /\ pluginCalls'[c].pc = "returned"
                    /\ pluginCalls'[c].result = FALSE
              /\ (/\ pluginCalls[c].pc = "await"
                  /\ pluginCalls[c].handler = "throws"
                  /\ PluginCallReturns(c))
                 => pluginCalls'[c].result = FALSE
              /\ (PluginCallReturns(c) /\ pluginCalls'[c].result = FALSE)
                 => pluginRegistry' = pluginRegistry]_vars

\* both plugins registered and one enabled; one call has returned false for a
\* throwing handler, another for an id unknown when it was made
C30_Witness ==
    /\ Len(pluginRegistry.plugins) = 2
    /\ pluginRegistry.enabledPlugins # {}
    /\ \E c, d \in 1..MaxPluginCalls :
           /\ pluginCalls[c].pc = "returned"
           /\ pluginCalls[c].result = FALSE
           /\ pluginCalls[c].handler = "throws"
           /\ pluginCalls[d].pc = "returned"
           /\ pluginCalls[d].result = FALSE
           /\ pluginCalls[d].handler = ""

====
